---------------------------- MODULE Spec2Model ----------------------------
(***************************************************************************)
(* A model of the Lox tree-walking interpreter: the scanner                *)
(* (src/src/scanner.rs), the parser (src/src/parser.rs), the evaluator     *)
(* (src/src/interpreter.rs), user functions (src/src/function.rs), the     *)
(* environment chain (src/src/environment.rs) and the driver               *)
(* (src/src/lox.rs).                                                       *)
(*                                                                         *)
(* Recursive Rust methods are recursive operators that thread the state    *)
(* they mutate: a scanner operator takes and returns the Scanner record S, *)
(* an evaluator operator takes the Interpreter record I and returns        *)
(* [I |-> the interpreter afterwards, r |-> the Result it returns].        *)
(* A Rust panic (unwrap of None, slice out of bounds, unreachable!(),      *)
(* arithmetic overflow in a checked build) is the result kind "Panic",     *)
(* which every caller passes on unchanged, as unwinding does.              *)
(***************************************************************************)
EXTENDS Integers, Sequences, FiniteSets, TLC

VARIABLES
    scanner,    \* the Scanner struct, with the diagnostic sink it writes to
    scan_pc,    \* where Lox::run's use of the scanner stands
    program,    \* the statement list handed to Interpreter::interpret
    interp,     \* the Interpreter struct, with the heap of environments
    pc,         \* index of the next top-level statement of interpret's loop
    status,     \* "idle" | "running" | "returned" | "panicked"
    interpret_result,   \* what interpret returned
    parser,     \* the Parser struct, with the diagnostics it has reported
    parse_statements,   \* the local statements of Parser::parse
    parse_pc,   \* "idle" | "parsing" | "done"
    lox,        \* the Lox struct
    run_pc      \* where Lox::run stands: "idle" | "running" | "done"

vars == <<scanner, scan_pc, program, interp, pc, status, interpret_result,
          parser, parse_statements, parse_pc, lox, run_pc>>

scanVars == <<scanner, scan_pc>>
interpVars == <<program, interp, pc, status, interpret_result>>
parseVars == <<parser, parse_statements, parse_pc>>
runVars == <<lox, run_pc>>

(***************************************************************************)
(* Bounds of the model.                                                    *)
(***************************************************************************)
MaxSourceLen == 3      \* longest generated source text, in characters
MaxStmts == 2          \* longest generated top-level statement list

(***************************************************************************)
(* f64.  A number is a pair <<p, q>>: the rational p/q in lowest terms     *)
(* with q > 0, or one of the IEEE 754 specials <<1, 0>> (+inf),            *)
(* <<-1, 0>> (-inf) and <<0, 0>> (NaN).  Rounding and the sign of zero are *)
(* not modelled.                                                           *)
(***************************************************************************)
Abs(n) == IF n < 0 THEN -n ELSE n

Sign(n) == IF n < 0 THEN -1 ELSE IF n > 0 THEN 1 ELSE 0

RECURSIVE Gcd(_, _)
Gcd(a, b) == IF b = 0 THEN a ELSE Gcd(b, a % b)

Ratio(p, q) ==
    IF q = 0 THEN <<Sign(p), 0>>
    ELSE LET g == Gcd(Abs(p), Abs(q))
             s == Sign(q)
         IN <<(s * p) \div g, (s * q) \div g>>

F64(n) == <<n, 1>>

NaN == <<0, 0>>

IsNaN(x) == x = NaN

IsInf(x) == x[2] = 0 /\ x[1] /= 0

F64Add(x, y) ==
    IF IsNaN(x) \/ IsNaN(y) THEN NaN
    ELSE IF IsInf(x) /\ IsInf(y) THEN (IF x = y THEN x ELSE NaN)
    ELSE IF IsInf(x) THEN x
    ELSE IF IsInf(y) THEN y
    ELSE Ratio(x[1] * y[2] + y[1] * x[2], x[2] * y[2])

F64Neg(x) == <<-x[1], x[2]>>

F64Sub(x, y) == F64Add(x, F64Neg(y))

F64Mul(x, y) ==
    IF IsNaN(x) \/ IsNaN(y) THEN NaN
    ELSE IF IsInf(x) \/ IsInf(y) THEN <<Sign(x[1]) * Sign(y[1]), 0>>
    ELSE Ratio(x[1] * y[1], x[2] * y[2])

F64Div(x, y) ==
    IF IsNaN(x) \/ IsNaN(y) THEN NaN
    ELSE IF IsInf(x) /\ IsInf(y) THEN NaN
    ELSE IF IsInf(x) THEN <<Sign(x[1]) * (IF y[1] < 0 THEN -1 ELSE 1), 0>>
    ELSE IF IsInf(y) THEN F64(0)
    ELSE IF y[1] = 0 THEN <<Sign(x[1]), 0>>
    ELSE Ratio(x[1] * y[2], x[2] * y[1])

\* x < y of IEEE 754: false when either side is NaN.
F64Lt(x, y) ==
    IF IsNaN(x) \/ IsNaN(y) THEN FALSE
    ELSE IF IsInf(x) /\ IsInf(y) THEN x[1] < y[1]
    ELSE IF IsInf(x) THEN x[1] < 0
    ELSE IF IsInf(y) THEN y[1] > 0
    ELSE x[1] * y[2] < y[1] * x[2]

F64Eq(x, y) == ~IsNaN(x) /\ ~IsNaN(y) /\ x = y

F64Le(x, y) == F64Lt(x, y) \/ F64Eq(x, y)

\* `{v}` of an f64.  An integral value prints without a decimal point; the
\* decimal expansion of a non-integral value is written p/q here.
F64Display(x) ==
    IF IsNaN(x) THEN "NaN"
    ELSE IF IsInf(x) THEN (IF x[1] > 0 THEN "inf" ELSE "-inf")
    ELSE IF x[2] = 1 THEN ToString(x[1])
    ELSE ToString(x[1]) \o "/" \o ToString(x[2])

(***************************************************************************)
(* Literal: the runtime value.                                             *)
(***************************************************************************)
Number(x) == [t |-> "Number", n |-> x]

String(s) == [t |-> "String", s |-> s]

Bool(b) == [t |-> "Bool", b |-> b]

Nil == [t |-> "Nil"]

NilImplicit == [t |-> "NilImplicit"]

\* Option::None of a token's literal and of an optional AST child.
None == [t |-> "None"]

\* Token::new
Token(token_type, lexeme, literal, line) ==
    [token_type |-> token_type, lexeme |-> lexeme, literal |-> literal,
     line |-> line]


(***************************************************************************)
(* Scanner (src/src/scanner.rs).  The source is a sequence of characters;  *)
(* a str is indexed in bytes by slicing and by len(), and in characters by *)
(* chars().nth().                                                          *)
(***************************************************************************)
\* usize::MAX.  TLC's integers are 32 bits wide and the model takes the
\* largest: the code only ever compares source_length with current.
UsizeMax == 2147483647

\* char::is_digit(RADIX)
RADIX == 10

NUL == "NUL"        \* the sentinel '\0'

MultiByte == "@"    \* stands for a character of two UTF-8 bytes, such as 'é'

Digits == {"0", "1", "2", "3", "4", "5", "6", "7", "8", "9"}

DigitValue(c) ==
    CASE c = "0" -> 0 [] c = "1" -> 1 [] c = "2" -> 2 [] c = "3" -> 3
      [] c = "4" -> 4 [] c = "5" -> 5 [] c = "6" -> 6 [] c = "7" -> 7
      [] c = "8" -> 8 [] c = "9" -> 9

Letters ==
    {"a", "b", "c", "d", "e", "f", "g", "h", "i", "j", "k", "l", "m", "n",
     "o", "p", "q", "r", "s", "t", "u", "v", "w", "x", "y", "z", "A", "B",
     "C", "D", "E", "F", "G", "H", "I", "J", "K", "L", "M", "N", "O", "P",
     "Q", "R", "S", "T", "U", "V", "W", "X", "Y", "Z"}

Width(c) == IF c = MultiByte THEN 2 ELSE 1

\* The byte offset of the character after the first i characters.
RECURSIVE ByteOffset(_, _)
ByteOffset(source, i) ==
    IF i = 0 THEN 0 ELSE ByteOffset(source, i - 1) + Width(source[i])

\* str::len
str_len(source) == ByteOffset(source, Len(source))

\* str::is_char_boundary
is_char_boundary(source, b) ==
    \E i \in 0..Len(source) : ByteOffset(source, i) = b

RECURSIVE Concat(_)
Concat(chars) ==
    IF chars = <<>> THEN "" ELSE Head(chars) \o Concat(Tail(chars))

\* &source[a..b]: the text, or a panic when a > b or an end is past the end
\* of the str or inside a character.
str_slice(source, a, b) ==
    IF a <= b /\ is_char_boundary(source, a) /\ is_char_boundary(source, b)
    THEN LET chars == SelectSeq([i \in 1..Len(source) |->
                          IF a <= ByteOffset(source, i - 1)
                             /\ ByteOffset(source, i - 1) < b
                          THEN source[i] ELSE ""], LAMBDA c : c /= "")
         IN [ok |-> TRUE, s |-> Concat(chars), chars |-> chars]
    ELSE [ok |-> FALSE, s |-> "", chars |-> <<>>]

\* source.chars().nth(n)
chars_nth(source, n) ==
    IF n < Len(source) THEN [some |-> TRUE, c |-> source[n + 1]]
    ELSE [some |-> FALSE, c |-> NUL]

RECURSIVE ParseDigits(_, _)
ParseDigits(chars, acc) ==
    IF chars = <<>> THEN acc
    ELSE ParseDigits(Tail(chars), 10 * acc + DigitValue(Head(chars)))

RECURSIVE Pow10(_)
Pow10(k) == IF k = 0 THEN 1 ELSE 10 * Pow10(k - 1)

AllDigits(chars) == \A i \in 1..Len(chars) : chars[i] \in Digits

\* The position of the first character of `chars` that is in `set`, or 0.
FirstIn(chars, set) ==
    LET at == {i \in 1..Len(chars) : chars[i] \in set}
    IN IF at = {} THEN 0 ELSE CHOOSE i \in at : \A j \in at : i <= j

ToLowerAscii(c) ==
    CASE c = "I" -> "i" [] c = "N" -> "n" [] c = "F" -> "f" [] c = "T" -> "t"
      [] c = "Y" -> "y" [] c = "A" -> "a" [] OTHER -> c

\* str::parse::<f64>: an optional sign, then inf, infinity or nan in any
\* case, or decimal digits with an optional point and an optional exponent.
\* [ok |-> FALSE] is the Err that unwrap() turns into a panic.
parse_f64(text) ==
    LET signed == text /= <<>> /\ Head(text) \in {"+", "-"}
        sgn == IF signed /\ Head(text) = "-" THEN -1 ELSE 1
        body == IF signed THEN Tail(text) ELSE text
        word == Concat([i \in 1..Len(body) |-> ToLowerAscii(body[i])])
        e == FirstIn(body, {"e", "E"})
        mant == IF e = 0 THEN body ELSE SubSeq(body, 1, e - 1)
        expo == IF e = 0 THEN <<>> ELSE SubSeq(body, e + 1, Len(body))
        esigned == expo /= <<>> /\ Head(expo) \in {"+", "-"}
        esgn == IF esigned /\ Head(expo) = "-" THEN -1 ELSE 1
        edigits == IF esigned THEN Tail(expo) ELSE expo
        d == FirstIn(mant, {"."})
        int == IF d = 0 THEN mant ELSE SubSeq(mant, 1, d - 1)
        frac == IF d = 0 THEN <<>> ELSE SubSeq(mant, d + 1, Len(mant))
        m == Ratio(ParseDigits(int, 0) * Pow10(Len(frac))
                      + ParseDigits(frac, 0), Pow10(Len(frac)))
        scale == Pow10(ParseDigits(edigits, 0))
    IN IF word \in {"inf", "infinity"} THEN [ok |-> TRUE, x |-> <<sgn, 0>>]
       ELSE IF word = "nan" THEN [ok |-> TRUE, x |-> NaN]
       ELSE IF AllDigits(int) /\ AllDigits(frac) /\ Len(int) + Len(frac) > 0
               /\ (e = 0 \/ (AllDigits(edigits) /\ edigits /= <<>>))
       THEN [ok |-> TRUE,
             x |-> IF e = 0 THEN Ratio(sgn * m[1], m[2])
                   ELSE IF esgn = 1 THEN Ratio(sgn * m[1] * scale, m[2])
                   ELSE Ratio(sgn * m[1], m[2] * scale)]
       ELSE [ok |-> FALSE, x |-> NaN]

\* The keyword table built by Scanner::new.
keywords ==
    [and |-> "And", class |-> "Class", else |-> "Else", false |-> "False",
     for |-> "For", fun |-> "Fun", if |-> "If", nil |-> "Nil", or |-> "Or",
     print |-> "Print", return |-> "Return", super |-> "Super",
     this |-> "This", true |-> "True", var |-> "Var", while |-> "While"]

\* A panic of the scanner: the process aborts, the scanner does nothing more.
ScanPanic(S) == [S EXCEPT !.panicked = TRUE]

\* The panic of chars().nth(..).unwrap() in the method fn, which found no
\* character at the position it read; panic_in keeps the method's name.
unwrap_none(S, fn) == [S EXCEPT !.panicked = TRUE, !.panic_in = fn]

\* error_reporter::error(line, message)
report_error(S, line, message) ==
    [S EXCEPT !.reported = Append(@, [line |-> line, message |-> message])]

\* Scanner::new.  source.len() - 1 underflows on the empty source: a build
\* with overflow checks panics there, a build without them wraps around.
\* spans is history, not a field of the struct: for each token pushed, the
\* values of start and current at that moment.
Scanner_new(source, overflow_checks) ==
    LET len == str_len(source)
    IN [source |-> source,
        source_length |-> IF len = 0 THEN UsizeMax ELSE len - 1,
        tokens |-> <<>>,
        start |-> 0,
        current |-> 0,
        line |-> 1,
        reported |-> <<>>,
        spans |-> <<>>,
        panic_in |-> "",
        panicked |-> len = 0 /\ overflow_checks]

is_at_end(S) == S.current >= S.source_length

\* Scanner::advance: [S |-> the scanner afterwards, c |-> the character].
advance(S) ==
    LET ch == chars_nth(S.source, S.current)
    IN IF S.panicked THEN [S |-> S, c |-> NUL]
       ELSE IF ch.some THEN [S |-> [S EXCEPT !.current = @ + 1], c |-> ch.c]
       ELSE [S |-> unwrap_none(S, "advance"), c |-> NUL]

\* Scanner::add_token_with_literal
add_token_with_literal(S, token_type, literal) ==
    LET text == str_slice(S.source, S.start, S.current)
    IN IF S.panicked THEN S
       ELSE IF ~text.ok THEN ScanPanic(S)
       ELSE [S EXCEPT !.tokens =
                Append(@, Token(token_type, text.s, literal, S.line)),
                      !.spans =
                Append(@, [start |-> S.start, current |-> S.current])]

add_token(S, token_type) == add_token_with_literal(S, token_type, None)

\* Scanner::match_char: [S |-> the scanner afterwards, b |-> the answer].
match_char(S, expected) ==
    LET ch == chars_nth(S.source, S.current)
    IN IF S.panicked \/ is_at_end(S) THEN [S |-> S, b |-> FALSE]
       ELSE IF ~ch.some THEN [S |-> unwrap_none(S, "match_char"), b |-> FALSE]
       ELSE IF ch.c /= expected THEN [S |-> S, b |-> FALSE]
       ELSE [S |-> [S EXCEPT !.current = @ + 1], b |-> TRUE]

\* Scanner::peek: the character, with some = FALSE where unwrap panics.
peek(S) ==
    IF is_at_end(S) THEN [some |-> TRUE, c |-> NUL]
    ELSE chars_nth(S.source, S.current)

\* Scanner::peek_next
peek_next(S) ==
    IF is_at_end(S) THEN [some |-> TRUE, c |-> NUL]
    ELSE chars_nth(S.source, S.current + 1)

is_digit(c) == c \in Digits

is_alpha(c) == c \in Letters \/ c = "_"

is_alphanumeric(c) == is_alpha(c) \/ is_digit(c)

\* The loop of a line comment (scanner.rs 131-133).
RECURSIVE line_comment(_)
line_comment(S) ==
    LET p == peek(S)
    IN IF S.panicked THEN S
       ELSE IF ~p.some THEN unwrap_none(S, "peek")
       ELSE IF p.c /= "\n" /\ ~is_at_end(S) THEN line_comment(advance(S).S)
       ELSE S

\* The loop of a block comment (scanner.rs 139-152): [S, stack].
RECURSIVE block_comment(_, _)
block_comment(S, stack) ==
    IF S.panicked \/ ~(Len(stack) /= 0 /\ ~is_at_end(S))
    THEN [S |-> S, stack |-> stack]
    ELSE LET char == peek(S)
             next_char == peek_next(S)
         IN IF ~char.some \/ ~next_char.some
            THEN [S |-> unwrap_none(S, IF ~char.some THEN "peek"
                                       ELSE "peek_next"),
                  stack |-> stack]
            ELSE IF char.c = "*" /\ next_char.c = "/"
            THEN block_comment(advance(advance(S).S).S,
                               SubSeq(stack, 1, Len(stack) - 1))
            ELSE IF char.c = "/" /\ next_char.c = "*"
            THEN block_comment(advance(advance(S).S).S,
                               Append(stack, S.line))
            ELSE IF char.c = "\n"
            THEN block_comment(advance([S EXCEPT !.line = @ + 1]).S, stack)
            ELSE block_comment(advance(S).S, stack)

\* The loop of Scanner::string (scanner.rs 228-233).
RECURSIVE string_loop(_)
\* The loop without the count of the lines.
string_loop_one_line(S) ==
    LET p == peek(S)
    IN IF S.panicked THEN S
       ELSE IF ~p.some THEN unwrap_none(S, "peek")
       ELSE IF p.c /= "\"" /\ ~is_at_end(S) THEN string_loop(advance(S).S)
       ELSE S

string_loop(S) ==
    LET p == peek(S)
    IN IF S.panicked THEN S
       ELSE IF ~p.some THEN unwrap_none(S, "peek")
       ELSE IF p.c /= "\"" /\ ~is_at_end(S)
       THEN string_loop(advance(IF p.c = "\n"
                                THEN [S EXCEPT !.line = @ + 1] ELSE S).S)
       ELSE S

\* Scanner::string
string(S0) ==
    LET S1 == string_loop(S0)
        S2 == advance(S1).S
        value == str_slice(S2.source, S2.start + 1, S2.current - 1)
    IN IF S1.panicked THEN S1
       ELSE IF is_at_end(S1)
       THEN report_error(S1, S1.line, "Unterminated string.")
       ELSE IF S2.panicked THEN S2
       ELSE IF ~value.ok THEN ScanPanic(S2)
       ELSE add_token_with_literal(S2, "String", String(value.s))

\* while self.peek().is_digit(RADIX) { self.advance(); }
RECURSIVE digits_loop(_)
digits_loop(S) ==
    LET p == peek(S)
    IN IF S.panicked THEN S
       ELSE IF ~p.some THEN unwrap_none(S, "peek")
       ELSE IF is_digit(p.c) THEN digits_loop(advance(S).S)
       ELSE S

\* Scanner::number
number(S0) ==
    LET S1 == digits_loop(S0)
        p == peek(S1)
        n == peek_next(S1)
        S2 == IF S1.panicked THEN S1
              ELSE IF ~p.some THEN unwrap_none(S1, "peek")
              ELSE IF p.c = "." /\ ~n.some THEN unwrap_none(S1, "peek_next")
              ELSE IF p.c = "." /\ is_digit(n.c)
              THEN digits_loop(advance(S1).S)
              ELSE S1
        value == str_slice(S2.source, S2.start, S2.current)
        parsed == parse_f64(value.chars)
    IN IF S2.panicked THEN S2
       ELSE IF ~value.ok \/ ~parsed.ok THEN ScanPanic(S2)
       ELSE add_token_with_literal(S2, "Number", Number(parsed.x))

\* while self.is_alphanumeric(self.peek()) { self.advance(); }
RECURSIVE identifier_loop(_)
identifier_loop(S) ==
    LET p == peek(S)
    IN IF S.panicked THEN S
       ELSE IF ~p.some THEN unwrap_none(S, "peek")
       ELSE IF is_alphanumeric(p.c) THEN identifier_loop(advance(S).S)
       ELSE S

\* Scanner::identifier
identifier(S0) ==
    LET S1 == identifier_loop(S0)
        text == str_slice(S1.source, S1.start, S1.current)
    IN IF S1.panicked THEN S1
       ELSE IF ~text.ok THEN ScanPanic(S1)
       ELSE add_token(S1, IF text.s \in DOMAIN keywords
                          THEN keywords[text.s] ELSE "Identifier")

\* The two-character operators of scan_token: `c` then an optional '='.
one_or_two(S, with_equal, without) ==
    LET m == match_char(S, "=")
    IN IF m.b THEN add_token(m.S, with_equal) ELSE add_token(m.S, without)

\* The '/' arm of scan_token (scanner.rs 128-164).
slash(S) ==
    LET m1 == match_char(S, "/")
        m2 == match_char(m1.S, "*")
        B == block_comment(m2.S, <<m2.S.line>>)
    IN IF m1.b THEN line_comment(m1.S)
       ELSE IF m2.b
       THEN IF ~B.S.panicked /\ Len(B.stack) /= 0 /\ is_at_end(B.S)
            THEN report_error(B.S, B.stack[Len(B.stack)],
                    "Don't forget to close a multiline comment with closing sign: '*/'.")
            ELSE B.S
       ELSE add_token(m2.S, "Slash")

\* Scanner::scan_token
scan_token(S0) ==
    LET a == advance(S0)
        S == a.S
        c == a.c
    IN IF S.panicked THEN S
       ELSE CASE c = "(" -> add_token(S, "LeftParen")
              [] c = ")" -> add_token(S, "RightParen")
              [] c = "{" -> add_token(S, "LeftBrace")
              [] c = "}" -> add_token(S, "RightBrace")
              [] c = "," -> add_token(S, "Comma")
              [] c = "." -> add_token(S, "Dot")
              [] c = "-" -> add_token(S, "Minus")
              [] c = "+" -> add_token(S, "Plus")
              [] c = ";" -> add_token(S, "Semicolon")
              [] c = "*" -> add_token(S, "Star")
              [] c = "!" -> one_or_two(S, "BangEqual", "Bang")
              [] c = "=" -> one_or_two(S, "EqualEqual", "Equal")
              [] c = "<" -> one_or_two(S, "LessEqual", "Less")
              [] c = ">" -> one_or_two(S, "GreaterEqual", "Greater")
              [] c = "/" -> slash(S)
              [] c \in {" ", "\r", "\t"} -> S
              [] c = "\n" -> [S EXCEPT !.line = @ + 1]
              [] c = "\"" -> string(S)
              [] OTHER -> IF is_digit(c) THEN number(S)
                          ELSE IF is_alpha(c) THEN identifier(S)
                          ELSE report_error(S, S.line, "Unexpected character.")

\* One iteration of the loop of Scanner::scan_tokens.
scan_tokens_step(S) == scan_token([S EXCEPT !.start = S.current])

\* The end of Scanner::scan_tokens: the EOF token.
scan_tokens_end(S) ==
    [S EXCEPT !.tokens = Append(@, Token("EOF", "", None, S.line)),
              !.spans = Append(@, [start |-> S.current, current |-> S.current])]


(***************************************************************************)
(* AST (src/src/expr.rs, src/src/stmt.rs).  An Option that is None is the  *)
(* record None.                                                            *)
(***************************************************************************)
AssignExpr(name, value) == [e |-> "Assign", name |-> name, value |-> value]

BinaryExpr(left, operator, right) ==
    [e |-> "Binary", left |-> left, operator |-> operator, right |-> right]

CallExpr(callee, paren, arguments) ==
    [e |-> "Call", callee |-> callee, paren |-> paren,
     arguments |-> arguments]

GroupingExpr(expression) == [e |-> "Grouping", expression |-> expression]

LiteralExpr(value) == [e |-> "Literal", value |-> value]

LogicalExpr(left, operator, right) ==
    [e |-> "Logical", left |-> left, operator |-> operator, right |-> right]

UnaryExpr(operator, right) ==
    [e |-> "Unary", operator |-> operator, right |-> right]

VariableExpr(name) == [e |-> "Variable", name |-> name]

BlockStmt(statements) == [s |-> "Block", statements |-> statements]

ExpressionStmt(expression) == [s |-> "Expression", expression |-> expression]

FunctionStmt(name, params, body) ==
    [s |-> "Function", name |-> name, params |-> params, body |-> body]

IfStmt(condition, then_branch, else_branch) ==
    [s |-> "If", condition |-> condition, then_branch |-> then_branch,
     else_branch |-> else_branch]

PrintStmt(expression) == [s |-> "Print", expression |-> expression]

ReturnStmt(keyword, value) ==
    [s |-> "Return", keyword |-> keyword, value |-> value]

VarStmt(name, initializer) ==
    [s |-> "Var", name |-> name, initializer |-> initializer]

WhileStmt(condition, body) ==
    [s |-> "While", condition |-> condition, body |-> body]

(***************************************************************************)
(* Result<_, LoxError> (src/src/error_reporter.rs).                        *)
(***************************************************************************)
Ok(v) == [k |-> "Ok", v |-> v]

OkUnit == Ok(None)

RuntimeError(token, message) ==
    [k |-> "RuntimeError", token |-> token, message |-> message]

SystemError(message) == [k |-> "SystemError", message |-> message]

\* LoxError::return_value
ReturnValue(value) == [k |-> "ReturnValue", value |-> value]

Panic(message) == [k |-> "Panic", message |-> message]

IsOk(r) == r.k = "Ok"

\* The element of a one-element set.  In Only({body : x \in {e}}) the value
\* of e is computed once and named x in body: that is how an operator below
\* names the result of a call it makes, as a `let` of the source does.
Only(S) == CHOOSE y \in S : TRUE

(***************************************************************************)
(* Callables.  A function value is an Rc<dyn LoxCallable>: rc is the       *)
(* identity of the allocation (0 for the one Clock).  LoxFunction keeps    *)
(* the declaration's name, params and body (src/src/function.rs 12-28).    *)
(***************************************************************************)
Clock == [t |-> "Function", callable |-> "Clock", rc |-> 0]

\* LoxFunction::new
LoxFunction_new(declaration, rc) ==
    [t |-> "Function", callable |-> "LoxFunction", rc |-> rc,
     name |-> declaration.name, params |-> declaration.params,
     body |-> declaration.body]

\* LoxCallable::arity
arity(f) == IF f.callable = "Clock" THEN 0 ELSE Len(f.params)

\* impl Display for Literal, for LoxFunction and for Clock
Display(v) ==
    CASE v.t = "Number" -> F64Display(v.n)
      [] v.t = "String" -> v.s
      [] v.t = "Bool" -> (IF v.b THEN "true" ELSE "false")
      [] v.t = "Nil" -> "nil"
      [] v.t = "NilImplicit" -> "nil_implicit"
      [] v.t = "Function" ->
            (IF v.callable = "Clock" THEN "native clock function"
             ELSE "<fn " \o v.name.lexeme \o ">")

(***************************************************************************)
(* Environment (src/src/environment.rs).  An Rc<RefCell<Environment>> is   *)
(* an index into I.envs, the environments allocated so far; enclosing = 0  *)
(* is None.                                                                *)
(***************************************************************************)
\* Environment::new
Environment_new == [enclosing |-> 0, values |-> <<>>]

\* An environment of its own, whatever encloses it.
new_without_enclosing(enclosing) == Environment_new

\* Environment::new_with_enclosing
new_with_enclosing(enclosing) == [enclosing |-> enclosing, values |-> <<>>]

\* Environment::define
define(environment, name, value) ==
    [environment EXCEPT !.values =
        [n \in (DOMAIN @) \cup {name} |-> IF n = name THEN value ELSE @[n]]]

\* A line of the history of the run (not program state).
Log(I, event) == [I EXCEPT !.trace = Append(@, event)]

\* LoxError::runtime_error: builds the error and reports it on stderr.
runtime_error(I, token, message) ==
    [I |-> [I EXCEPT !.err = Append(@, message)],
     r |-> RuntimeError(token, message)]

\* LoxError::system_error
system_error(I, message) ==
    [I |-> [I EXCEPT !.err = Append(@, "System Error: " \o message)],
     r |-> SystemError(message)]

\* Environment::get that prefers the outermost binding of the name.
RECURSIVE Environment_get_outermost(_, _, _)
Environment_get_outermost(I, h, name) ==
    IF /\ I.envs[h].enclosing /= 0
       /\ IsOk(Environment_get_outermost(I, I.envs[h].enclosing, name).r)
    THEN Environment_get_outermost(I, I.envs[h].enclosing, name)
    ELSE IF name.lexeme \in DOMAIN I.envs[h].values
    THEN [I |-> I, r |-> Ok(I.envs[h].values[name.lexeme])]
    ELSE runtime_error(I, name,
            "Undefined variable '" \o name.lexeme \o "'.")

\* Environment::assign that updates every scope that binds the name.
Environment_assign_every_scope(I, h, name, value) ==
    IF \E e \in DOMAIN I.envs : name.lexeme \in DOMAIN I.envs[e].values
    THEN [I |-> [I EXCEPT !.envs =
                    [e \in DOMAIN @ |->
                        IF name.lexeme \in DOMAIN @[e].values
                        THEN define(@[e], name.lexeme, value)
                        ELSE @[e]]],
          r |-> OkUnit]
    ELSE runtime_error(I, name,
            "Undefined variable '" \o name.lexeme \o "'.")

\* Environment::get on the environment with handle h
RECURSIVE Environment_get(_, _, _)
Environment_get(I, h, name) ==
    IF name.lexeme \in DOMAIN I.envs[h].values
    THEN [I |-> I, r |-> Ok(I.envs[h].values[name.lexeme])]
    ELSE IF I.envs[h].enclosing /= 0
    THEN Environment_get(I, I.envs[h].enclosing, name)
    ELSE runtime_error(I, name,
            "Undefined variable '" \o name.lexeme \o "'.")

\* Environment::assign on the environment with handle h
RECURSIVE Environment_assign(_, _, _, _)
Environment_assign(I, h, name, value) ==
    IF name.lexeme \in DOMAIN I.envs[h].values
    THEN [I |-> [I EXCEPT !.envs[h] = define(@, name.lexeme, value)],
          r |-> OkUnit]
    ELSE IF I.envs[h].enclosing /= 0
    THEN Environment_assign(I, I.envs[h].enclosing, name, value)
    ELSE runtime_error(I, name,
            "Undefined variable '" \o name.lexeme \o "'.")

(***************************************************************************)
(* Interpreter (src/src/interpreter.rs) and LoxFunction::call              *)
(* (src/src/function.rs).  The record I holds the struct's two handles,    *)
(* the heap they point into, stdout and stderr, and the history of the run *)
(* (trace, with the nesting depth of evaluate and the stack of calls in    *)
(* progress that its lines are stamped with).                              *)
(***************************************************************************)
\* Interpreter::new
Interpreter_new ==
    [envs |-> <<define(Environment_new, "clock", Clock)>>,
     globals |-> 1,
     environment |-> 1,
     out |-> <<>>,
     err |-> <<>>,
     now |-> 0,
     nfun |-> 0,
     ncalls |-> 0,
     frames |-> <<>>,
     depth |-> 0,
     level |-> 0,
     trace |-> <<>>]

\* The call in progress that the running code belongs to; 0 at top level.
Frame(I) == IF I.frames = <<>> THEN 0 ELSE I.frames[Len(I.frames)]

\* The number zero taken for false as well.
is_truthy_but_zero(literal) ==
    CASE literal.t = "Nil" -> FALSE
      [] literal.t = "Bool" -> literal.b
      [] literal.t = "Number" -> literal.n /= F64(0)
      [] OTHER -> TRUE

\* Interpreter::is_truthy
is_truthy(literal) ==
    CASE literal.t = "Nil" -> FALSE
      [] literal.t = "Bool" -> literal.b
      [] OTHER -> TRUE

\* Interpreter::error
error(I, token, message) == runtime_error(I, token, message)

\* The match of visit_binary_expr (interpreter.rs 35-128) on the two operand
\* values.
binary_match(I, operator, left, right) ==
    LET op == operator.token_type
        l == left.t
        r == right.t
        ok(v) == [I |-> I, r |-> Ok(v)]
        equality(ne, eq, message) ==
            CASE op = "BangEqual" -> ok(Bool(ne))
              [] op = "EqualEqual" -> ok(Bool(eq))
              [] OTHER -> error(I, operator, message)
    IN CASE l = "Number" /\ r = "Number" ->
              (CASE op = "Minus" -> ok(Number(F64Sub(left.n, right.n)))
                 [] op = "Slash" -> ok(Number(F64Div(left.n, right.n)))
                 [] op = "Star" -> ok(Number(F64Mul(left.n, right.n)))
                 [] op = "Plus" -> ok(Number(F64Add(left.n, right.n)))
                 [] op = "Greater" -> ok(Bool(F64Lt(right.n, left.n)))
                 [] op = "GreaterEqual" -> ok(Bool(F64Le(right.n, left.n)))
                 [] op = "Less" -> ok(Bool(F64Lt(left.n, right.n)))
                 [] op = "LessEqual" -> ok(Bool(F64Le(left.n, right.n)))
                 [] op = "BangEqual" -> ok(Bool(~F64Eq(left.n, right.n)))
                 [] op = "EqualEqual" -> ok(Bool(F64Eq(left.n, right.n)))
                 [] OTHER -> error(I, operator, "Invalid operation"))
         [] l = "Number" /\ r = "String" ->
              (CASE op = "Plus" ->
                      ok(String(F64Display(left.n) \o right.s))
                 [] op = "BangEqual" -> ok(Bool(TRUE))
                 [] op = "EqualEqual" -> ok(Bool(FALSE))
                 [] OTHER -> error(I, operator, "Operands must be numbers"))
         [] l = "String" /\ r = "Number" ->
              (CASE op = "Plus" ->
                      ok(String(left.s \o F64Display(right.n)))
                 [] op = "BangEqual" -> ok(Bool(TRUE))
                 [] op = "EqualEqual" -> ok(Bool(FALSE))
                 [] OTHER -> error(I, operator, "Operands must be numbers"))
         [] l = "String" /\ r = "String" ->
              (CASE op = "Plus" -> ok(String(left.s \o right.s))
                 [] op = "BangEqual" -> ok(Bool(left.s /= right.s))
                 [] op = "EqualEqual" -> ok(Bool(left.s = right.s))
                 [] OTHER -> error(I, operator, "Operands must be numbers"))
         [] l = "Bool" /\ r = "Bool" ->
              equality(left.b /= right.b, left.b = right.b,
                       "Operands must be numbers")
         [] (l = "String" /\ r = "Bool") \/ (l = "Bool" /\ r = "String") ->
              equality(TRUE, FALSE, "Operands must be numbers")
         [] (l = "Number" /\ r = "Bool") \/ (l = "Bool" /\ r = "Number") ->
              equality(TRUE, FALSE,
                       "Operands must be two numbers or two strings.")
         [] l = "Nil" /\ r = "Nil" ->
              equality(FALSE, TRUE,
                       "Operands must be two numbers or two strings.")
         [] (l = "Nil" /\ r /= "Nil") \/ (l /= "Nil" /\ r = "Nil") ->
              equality(TRUE, FALSE,
                       "Operands must be two numbers or two strings.")
         [] OTHER ->
              [I |-> I,
               r |-> Panic("internal error: entered unreachable code")]

\* impl LoxCallable for Clock: call.  I.now is SystemTime::now() in
\* microseconds since the epoch, negative for a clock set before it.
Clock_call(I, arguments) ==
    IF I.now >= 0 THEN [I |-> I, r |-> Ok(Number(F64(I.now)))]
    ELSE system_error(I, "Invalid duration")

\* The loop of LoxFunction::call that binds the parameters
\* (function.rs 38-40): zip stops at the shorter of the two.
RECURSIVE bind_params(_, _, _)
bind_params(environment, params, arguments) ==
    IF params = <<>> \/ arguments = <<>> THEN environment
    ELSE bind_params(define(environment, Head(params).lexeme, Head(arguments)),
                     Tail(params), Tail(arguments))

RECURSIVE evaluate(_, _)
RECURSIVE execute(_, _)
RECURSIVE execute_block(_, _, _)
RECURSIVE try_for_each(_, _)
RECURSIVE evaluate_arguments(_, _, _)
RECURSIVE while_loop(_, _, _)
RECURSIVE LoxFunction_call(_, _, _)

\* Interpreter::visit_binary_expr
visit_binary_expr(I, expr) ==
    Only({ IF ~IsOk(left.r) THEN left
           ELSE Only({ IF ~IsOk(right.r) THEN right
                       ELSE binary_match(right.I, expr.operator,
                                         left.r.v, right.r.v)
                       : right \in {evaluate(left.I, expr.right)} })
           : left \in {evaluate(I, expr.left)} })

\* The loop of visit_call_expr over the arguments (interpreter.rs 137-139):
\* r is Ok(the argument values) or the first failure.
evaluate_arguments(I, arguments, values) ==
    IF arguments = <<>> THEN [I |-> I, r |-> Ok(values)]
    ELSE Only({ IF ~IsOk(a.r) THEN a
                ELSE evaluate_arguments(a.I, Tail(arguments),
                                        Append(values, a.r.v))
                : a \in {evaluate(I, Head(arguments))} })

\* LoxCallable::call, dispatched on the callable behind the Rc
callable_call(I, function, arguments) ==
    IF function.callable = "Clock" THEN Clock_call(I, arguments)
    ELSE LoxFunction_call(I, function, arguments)

\* The rest of visit_call_expr without the comparison with arity().
call_function_any_arity(I, expr, callee, arguments) ==
    IF callee.t = "Function"
    THEN callable_call(I, callee, arguments)
    ELSE runtime_error(I, expr.paren, "Can only call functions and classes.")

\* The rest of visit_call_expr (interpreter.rs 141-164), with the values of
\* the callee and of the arguments.
call_function(I, expr, callee, arguments) ==
    IF callee.t = "Function"
    THEN IF Len(arguments) /= arity(callee)
         THEN runtime_error(I, expr.paren,
                 "Expected " \o ToString(arity(callee))
                 \o " arguments but got " \o ToString(Len(arguments)) \o ".")
         ELSE callable_call(I, callee, arguments)
    ELSE runtime_error(I, expr.paren, "Can only call functions and classes.")

\* Interpreter::visit_call_expr
visit_call_expr(I, expr) ==
    Only({ IF ~IsOk(callee.r) THEN callee
           ELSE Only({ IF ~IsOk(arguments.r) THEN arguments
                       ELSE call_function(arguments.I, expr, callee.r.v,
                                          arguments.r.v)
                       : arguments \in
                           {evaluate_arguments(callee.I, expr.arguments, <<>>)}
                     })
           : callee \in {evaluate(I, expr.callee)} })

\* Interpreter::visit_grouping_expr
visit_grouping_expr(I, expr) == evaluate(I, expr.expression)

\* Interpreter::visit_literal_expr
visit_literal_expr(I, expr) ==
    IF expr.value = None
    THEN [I |-> I, r |-> Panic("called Option::unwrap() on a None value")]
    ELSE [I |-> I, r |-> Ok(expr.value)]

\* visit_logical_exp without the short circuit: the right operand is
\* evaluated whatever the left one is.
visit_logical_exp_eager(I, expr) ==
    Only({ IF ~IsOk(left.r) THEN left
           ELSE evaluate(left.I, expr.right)
           : left \in {evaluate(I, expr.left)} })

\* Interpreter::visit_logical_exp
visit_logical_exp(I, expr) ==
    Only({ IF ~IsOk(left.r) THEN left
           ELSE IF (IF expr.operator.token_type = "Or"
                    THEN is_truthy(left.r.v) ELSE ~is_truthy(left.r.v))
           THEN left
           ELSE evaluate(left.I, expr.right)
           : left \in {evaluate(I, expr.left)} })

\* Interpreter::visit_unary_expr
visit_unary_expr(I, expr) ==
    Only({ IF ~IsOk(right.r) THEN right
           ELSE CASE expr.operator.token_type = "Minus" ->
                       (IF right.r.v.t = "Number"
                        THEN [I |-> right.I,
                              r |-> Ok(Number(F64Neg(right.r.v.n)))]
                        ELSE error(right.I, expr.operator,
                                   "Operand must be a number."))
                  [] expr.operator.token_type = "Bang" ->
                       [I |-> right.I, r |-> Ok(Bool(~is_truthy(right.r.v)))]
                  [] OTHER ->
                       [I |-> right.I,
                        r |-> Panic("internal error: entered unreachable code")]
           : right \in {evaluate(I, expr.right)} })

\* The value of get as it is.
explicit_value_unchecked(value, expr) == value

\* The Result of visit_variable_expr for the Result `value` of get.
explicit_value(value, expr) ==
    IF ~IsOk(value.r) THEN value
    ELSE IF value.r.v = NilImplicit
    THEN error(value.I, expr.name, "Variable was not explicitly initialized")
    ELSE value

\* Interpreter::visit_variable_expr.  The history gets the read: the name,
\* the current environment, the environments and the Result.
visit_variable_expr(I, expr) ==
    Only({ [I |-> Log(result.I,
                      [ev |-> "read", name |-> expr.name,
                       environment |-> I.environment, envs |-> I.envs,
                       r |-> result.r]),
            r |-> result.r]
           : result \in
               {explicit_value(Environment_get(I, I.environment, expr.name),
                               expr)} })

\* Interpreter::visit_assignment_expr.  The history gets the assignment: the
\* environments before and after Environment::assign.
visit_assignment_expr(I, expr) ==
    Only({ IF ~IsOk(value.r) THEN value
           ELSE Only({ [I |-> Log(assigned.I,
                                  [ev |-> "assign", name |-> expr.name,
                                   environment |-> value.I.environment,
                                   before |-> value.I.envs,
                                   after |-> assigned.I.envs,
                                   value |-> value.r.v,
                                   r |-> IF IsOk(assigned.r) THEN value.r
                                         ELSE assigned.r]),
                        r |-> IF IsOk(assigned.r) THEN value.r
                              ELSE assigned.r]
                       : assigned \in
                           {Environment_assign(value.I, value.I.environment,
                                               expr.name, value.r.v)} })
           : value \in {evaluate(I, expr.value)} })

\* Expr::accept: the visitor method of the variant
accept_expr(I, expr) ==
    CASE expr.e = "Assign" -> visit_assignment_expr(I, expr)
      [] expr.e = "Call" -> visit_call_expr(I, expr)
      [] expr.e = "Binary" -> visit_binary_expr(I, expr)
      [] expr.e = "Grouping" -> visit_grouping_expr(I, expr)
      [] expr.e = "Literal" -> visit_literal_expr(I, expr)
      [] expr.e = "Logical" -> visit_logical_exp(I, expr)
      [] expr.e = "Unary" -> visit_unary_expr(I, expr)
      [] expr.e = "Variable" -> visit_variable_expr(I, expr)

\* Interpreter::evaluate.  The history gets a line when the evaluation of
\* expr starts and one, with the Result, when it ends.
evaluate(I, expr) ==
    Only({ [I |-> Log([R.I EXCEPT !.depth = I.depth],
                      [ev |-> "eval_exit", depth |-> I.depth + 1,
                       expr |-> expr, r |-> R.r,
                       nenvs |-> Len(R.I.envs)]),
            r |-> R.r]
           : R \in {accept_expr(
                      Log([I EXCEPT !.depth = I.depth + 1],
                          [ev |-> "eval_enter", depth |-> I.depth + 1,
                           frame |-> Frame(I), expr |-> expr]),
                      expr)} })

\* Interpreter::visit_expression_stmt
visit_expression_stmt(I, stmt) ==
    Only({ IF ~IsOk(value.r) THEN value ELSE [I |-> value.I, r |-> OkUnit]
           : value \in {evaluate(I, stmt.expression)} })

\* Interpreter::visit_function_stmt.  The environment handed to
\* LoxFunction::new is not kept by it.
visit_function_stmt(I, stmt) ==
    [I |-> Log([I EXCEPT !.nfun = I.nfun + 1,
                         !.envs[I.environment] =
                             define(@, stmt.name.lexeme,
                                    LoxFunction_new(stmt, I.nfun + 1))],
               [ev |-> "fun_decl", rc |-> I.nfun + 1, env |-> I.environment]),
     r |-> OkUnit]

\* Interpreter::visit_if_stmt
visit_if_stmt(I, stmt) ==
    Only({ IF ~IsOk(literal.r) THEN literal
           ELSE IF is_truthy(literal.r.v)
           THEN execute(literal.I, stmt.then_branch)
           ELSE IF stmt.else_branch /= None
           THEN execute(literal.I, stmt.else_branch)
           ELSE [I |-> literal.I, r |-> OkUnit]
           : literal \in {evaluate(I, stmt.condition)} })

\* Interpreter::visit_print_stmt
visit_print_stmt(I, stmt) ==
    Only({ IF ~IsOk(value.r) THEN value
           ELSE [I |-> [value.I EXCEPT !.out = Append(@, Display(value.r.v))],
                 r |-> OkUnit]
           : value \in {evaluate(I, stmt.expression)} })

\* Err(LoxError::return_value(value)) of visit_return_stmt
return_value(I, value) ==
    [I |-> Log(I, [ev |-> "return", frame |-> Frame(I), value |-> value]),
     r |-> ReturnValue(value)]

\* Interpreter::visit_return_stmt
visit_return_stmt(I, stmt) ==
    IF stmt.value /= None
    THEN Only({ IF ~IsOk(value.r) THEN value
                ELSE return_value(value.I, value.r.v)
                : value \in {evaluate(I, stmt.value)} })
    ELSE return_value(I, Nil)

\* visit_var_stmt that defines the variable in the global environment.
visit_var_stmt_in_globals(I, stmt) ==
    Only({ IF ~IsOk(value.r) THEN value
           ELSE Only({ [I |-> Log(defined,
                                  [ev |-> "var", name |-> stmt.name,
                                   initializer |-> stmt.initializer,
                                   environment |-> value.I.environment,
                                   before |-> value.I.envs,
                                   after |-> defined.envs,
                                   value |-> value.r.v]),
                        r |-> OkUnit]
                       : defined \in
                           {[value.I EXCEPT !.envs[value.I.globals] =
                                define(@, stmt.name.lexeme, value.r.v)]} })
           : value \in {IF stmt.initializer /= None
                        THEN evaluate(I, stmt.initializer)
                        ELSE [I |-> I, r |-> Ok(NilImplicit)]} })

\* Interpreter::visit_var_stmt.  The history gets the definition: the
\* environments before and after Environment::define.
visit_var_stmt(I, stmt) ==
    Only({ IF ~IsOk(value.r) THEN value
           ELSE Only({ [I |-> Log(defined,
                                  [ev |-> "var", name |-> stmt.name,
                                   initializer |-> stmt.initializer,
                                   environment |-> value.I.environment,
                                   before |-> value.I.envs,
                                   after |-> defined.envs,
                                   value |-> value.r.v]),
                        r |-> OkUnit]
                       : defined \in
                           {[value.I EXCEPT !.envs[value.I.environment] =
                                define(@, stmt.name.lexeme, value.r.v)]} })
           : value \in {IF stmt.initializer /= None
                        THEN evaluate(I, stmt.initializer)
                        ELSE [I |-> I, r |-> Ok(NilImplicit)]} })

\* The loop of visit_while_stmt (interpreter.rs 310-313): literal is the
\* Result of the latest evaluation of the condition.
while_loop(I, stmt, literal) ==
    IF ~IsOk(literal.r) THEN literal
    ELSE IF is_truthy(literal.r.v)
    THEN Only({ IF ~IsOk(body.r) THEN body
                ELSE Only({ while_loop(body.I, stmt, next)
                            : next \in {evaluate(body.I, stmt.condition)} })
                : body \in {execute(literal.I, stmt.body)} })
    ELSE [I |-> literal.I, r |-> OkUnit]

\* Interpreter::visit_while_stmt
visit_while_stmt(I, stmt) ==
    Only({ while_loop(I, stmt, literal)
           : literal \in {evaluate(I, stmt.condition)} })

\* Interpreter::visit_block_stmt
visit_block_stmt(I, stmt) ==
    execute_block(I, stmt.statements, new_with_enclosing(I.environment))

\* statements.iter().try_for_each(|statement| self.execute(statement))
try_for_each(I, statements) ==
    IF statements = <<>> THEN [I |-> I, r |-> OkUnit]
    ELSE Only({ IF ~IsOk(first.r) THEN first
                ELSE try_for_each(first.I, Tail(statements))
                : first \in {execute(I, Head(statements))} })

\* execute_block with `?` on the statements: a failure returns before the
\* assignment that restores the environment.
execute_block_early_return(I, statements, environment) ==
    Only({ IF result.r.k = "Panic" THEN result
           ELSE LET previous == I.environment
                    restored == IF IsOk(result.r)
                                THEN [result.I EXCEPT !.environment = previous]
                                ELSE result.I
                IN [I |-> Log(restored,
                              [ev |-> "execute_block",
                               previous |-> I.environment,
                               after |-> restored.environment,
                               k |-> result.r.k]),
                    r |-> result.r]
           : result \in
               {try_for_each([I EXCEPT !.envs = Append(@, environment),
                                       !.environment = Len(I.envs) + 1],
                             statements)} })

\* Interpreter::execute_block.  A panic unwinds past the assignment that
\* restores the environment.
execute_block(I, statements, environment) ==
    Only({ IF result.r.k = "Panic" THEN result
           ELSE LET previous == I.environment
                    restored == [result.I EXCEPT !.environment = previous]
                IN [I |-> Log(restored,
                              [ev |-> "execute_block",
                               previous |-> I.environment,
                               after |-> restored.environment,
                               k |-> result.r.k]),
                    r |-> result.r]
           : result \in
               {try_for_each([I EXCEPT !.envs = Append(@, environment),
                                       !.environment = Len(I.envs) + 1],
                             statements)} })

\* The match of LoxFunction::call without its ReturnValue arm: the returned
\* value is dropped with the unwind.
call_result_drops_value(body) ==
    IF body.k = "Panic" THEN body ELSE Ok(Nil)

\* The match of LoxFunction::call on the Result of the body
\* (function.rs 43-51).
call_result(body) ==
    CASE body.k = "Ok" -> Ok(Nil)
      [] body.k = "ReturnValue" -> Ok(body.value)
      [] body.k = "Panic" -> body
      [] OTHER -> Ok(Nil)

\* impl LoxCallable for LoxFunction: call
LoxFunction_call(I, function, arguments) ==
    LET environment == bind_params(new_with_enclosing(I.globals),
                                   function.params, arguments)
        frame == I.ncalls + 1
    IN Only({ [I |-> Log([body.I EXCEPT !.frames = I.frames],
                         [ev |-> "call_exit", frame |-> frame,
                          body |-> body.r, r |-> call_result(body.r)]),
               r |-> call_result(body.r)]
              : body \in
                  {execute_block(
                     Log([I EXCEPT !.ncalls = frame,
                                   !.frames = Append(@, frame)],
                         [ev |-> "call", frame |-> frame,
                          rc |-> function.rc,
                          enclosing |-> environment.enclosing]),
                     function.body, environment)} })

\* Stmt::accept: the visitor method of the variant
accept_stmt(I, stmt) ==
    CASE stmt.s = "Block" -> visit_block_stmt(I, stmt)
      [] stmt.s = "Expression" -> visit_expression_stmt(I, stmt)
      [] stmt.s = "Function" -> visit_function_stmt(I, stmt)
      [] stmt.s = "Print" -> visit_print_stmt(I, stmt)
      [] stmt.s = "Return" -> visit_return_stmt(I, stmt)
      [] stmt.s = "Var" -> visit_var_stmt(I, stmt)
      [] stmt.s = "If" -> visit_if_stmt(I, stmt)
      [] stmt.s = "While" -> visit_while_stmt(I, stmt)

\* Interpreter::execute.  The history gets a line when stmt starts.
execute(I, stmt) ==
    Only({ [I |-> [R.I EXCEPT !.level = I.level], r |-> R.r]
           : R \in {accept_stmt(
                      Log([I EXCEPT !.level = I.level + 1],
                          [ev |-> "execute", frame |-> Frame(I),
                           level |-> I.level + 1, stmt |-> stmt]),
                      stmt)} })

(***************************************************************************)
(* Parser (src/src/parser.rs).  The record P holds the struct's fields,    *)
(* tokens and current, with the diagnostics LoxError::parse_error has      *)
(* written to stderr (reported) and the history of the parse (trace, with  *)
(* the nesting depth of block that its lines are stamped with).  A method  *)
(* answers the parser it leaves behind and its Result.                     *)
(***************************************************************************)
MAX_ARGUMENTS_COUNT == 255

ParseError(token, message) ==
    [k |-> "ParseError", token |-> token, message |-> message]

\* Parser::new
Parser_new(tokens) ==
    [tokens |-> tokens, current |-> 0, reported |-> <<>>, trace |-> <<>>,
     depth |-> 0]

\* A line of the history of the parse (not program state).
ParserLog(P, event) == [P EXCEPT !.trace = Append(@, event)]

\* Parser::peek
Parser_peek(P) == P.tokens[P.current + 1]

\* Parser::previous
previous(P) == P.tokens[P.current]

\* Parser::is_at_end
Parser_is_at_end(P) == Parser_peek(P).token_type = "EOF"

\* Parser::check
check(P, token_type) ==
    IF Parser_is_at_end(P) THEN FALSE
    ELSE Parser_peek(P).token_type = token_type

\* Parser::advance; its answer is previous of the parser it leaves.  The
\* method calls previous whether its answer is used or not: the history
\* gets the call made with the cursor at 0, where current - 1 underflows.
Parser_advance(P) ==
    IF ~Parser_is_at_end(P) THEN [P EXCEPT !.current = @ + 1]
    ELSE IF P.current = 0
    THEN ParserLog(P, [ev |-> "previous", at |-> P.current])
    ELSE P

\* Parser::is_match
is_match(P, types) ==
    IF \E token_type \in types : check(P, token_type)
    THEN [P |-> Parser_advance(P), b |-> TRUE]
    ELSE [P |-> P, b |-> FALSE]

\* Parser::error, with LoxError::parse_error that reports the error.
Parser_error(P, token, message) ==
    [P |-> ParserLog([P EXCEPT !.reported =
                         Append(@, [token |-> token, message |-> message])],
                     [ev |-> "error", at |-> P.current, depth |-> P.depth,
                      message |-> message]),
     r |-> ParseError(token, message)]

\* Parser::consume
consume(P, token_type, message) ==
    IF check(P, token_type)
    THEN [P |-> Parser_advance(P), r |-> Ok(previous(Parser_advance(P)))]
    ELSE Parser_error(P, Parser_peek(P), message)

\* The token types a declaration or a statement starts with.
SynchronizationKeywords ==
    {"Class", "Fun", "Var", "For", "If", "While", "Print", "Return"}

\* The loop of Parser::synchronize
RECURSIVE synchronize_loop(_)
synchronize_loop(P) ==
    IF Parser_is_at_end(P) THEN P
    ELSE IF previous(P).token_type = "Semicolon" THEN P
    ELSE IF Parser_peek(P).token_type \in SynchronizationKeywords THEN P
    ELSE synchronize_loop(Parser_advance(P))

\* No token discarded after an error outside every block.
synchronize_in_blocks_only(P) ==
    IF P.depth = 0 THEN P ELSE synchronize_loop(Parser_advance(P))

\* Parser::synchronize
synchronize(P) == synchronize_loop(Parser_advance(P))

RECURSIVE expression(_)
RECURSIVE assignment(_)
RECURSIVE or(_)
RECURSIVE or_loop(_, _)
RECURSIVE and(_)
RECURSIVE and_loop(_, _)
RECURSIVE equality(_)
RECURSIVE equality_loop(_, _)
RECURSIVE comparison(_)
RECURSIVE comparison_loop(_, _)
RECURSIVE term(_)
RECURSIVE term_loop(_, _)
RECURSIVE factor(_)
RECURSIVE factor_loop(_, _)
RECURSIVE unary(_)
RECURSIVE arguments_loop(_, _)
RECURSIVE finish_call(_, _)
RECURSIVE call_loop(_, _)
RECURSIVE call(_)
RECURSIVE primary(_)
RECURSIVE declaration(_)
RECURSIVE statement(_)
RECURSIVE for_statement(_)
RECURSIVE if_statement(_)
RECURSIVE print_statement(_)
RECURSIVE return_statement(_)
RECURSIVE var_declaration(_)
RECURSIVE while_statement(_)
RECURSIVE expression_statement(_)
RECURSIVE function(_, _)
RECURSIVE block_loop(_, _)
RECURSIVE block(_)

\* Parser::expression
expression(P) == assignment(P)

\* The end of Parser::assignment, after the target expr, the token equals
\* and the value.
assignment_target(P, expr, equals, value) ==
    IF expr.e = "Variable"
    THEN [P |-> P, r |-> Ok(AssignExpr(expr.name, value))]
    ELSE [P |-> Parser_error(P, equals, "Invalid assignment target.").P,
          r |-> Ok(expr)]

\* Parser::assignment
assignment(P) ==
    Only({ IF ~IsOk(expr.r) THEN expr
           ELSE IF is_match(expr.P, {"Equal"}).b
           THEN Only({ IF ~IsOk(value.r) THEN value
                       ELSE assignment_target(
                                value.P, expr.r.v,
                                previous(is_match(expr.P, {"Equal"}).P),
                                value.r.v)
                       : value \in
                           {assignment(is_match(expr.P, {"Equal"}).P)} })
           ELSE expr
           : expr \in {or(P)} })

\* Parser::or
or(P) ==
    Only({ IF ~IsOk(expr.r) THEN expr ELSE or_loop(expr.P, expr.r.v)
           : expr \in {and(P)} })

or_loop(P, expr) ==
    IF is_match(P, {"Or"}).b
    THEN Only({ IF ~IsOk(right.r) THEN right
                ELSE or_loop(right.P,
                             LogicalExpr(expr,
                                         previous(is_match(P, {"Or"}).P),
                                         right.r.v))
                : right \in {and(is_match(P, {"Or"}).P)} })
    ELSE [P |-> P, r |-> Ok(expr)]

\* Parser::and
and(P) ==
    Only({ IF ~IsOk(expr.r) THEN expr ELSE and_loop(expr.P, expr.r.v)
           : expr \in {equality(P)} })

and_loop(P, expr) ==
    IF is_match(P, {"And"}).b
    THEN Only({ IF ~IsOk(right.r) THEN right
                ELSE and_loop(right.P,
                              LogicalExpr(expr,
                                          previous(is_match(P, {"And"}).P),
                                          right.r.v))
                : right \in {equality(is_match(P, {"And"}).P)} })
    ELSE [P |-> P, r |-> Ok(expr)]

\* Parser::equality
equality(P) ==
    Only({ IF ~IsOk(expr.r) THEN expr ELSE equality_loop(expr.P, expr.r.v)
           : expr \in {comparison(P)} })

equality_loop(P, expr) ==
    IF is_match(P, {"BangEqual", "EqualEqual"}).b
    THEN Only({ IF ~IsOk(right.r) THEN right
                ELSE equality_loop(
                         right.P,
                         BinaryExpr(expr,
                                    previous(Parser_advance(P)), right.r.v))
                : right \in {comparison(Parser_advance(P))} })
    ELSE [P |-> P, r |-> Ok(expr)]

\* Parser::comparison
comparison(P) ==
    Only({ IF ~IsOk(expr.r) THEN expr ELSE comparison_loop(expr.P, expr.r.v)
           : expr \in {term(P)} })

comparison_loop(P, expr) ==
    IF is_match(P, {"Greater", "GreaterEqual", "Less", "LessEqual"}).b
    THEN Only({ IF ~IsOk(right.r) THEN right
                ELSE comparison_loop(
                         right.P,
                         BinaryExpr(expr,
                                    previous(Parser_advance(P)), right.r.v))
                : right \in {term(Parser_advance(P))} })
    ELSE [P |-> P, r |-> Ok(expr)]

\* Parser::term
term(P) ==
    Only({ IF ~IsOk(expr.r) THEN expr ELSE term_loop(expr.P, expr.r.v)
           : expr \in {factor(P)} })

\* The right operand taken at the level of the loop itself.
term_loop_right_term(P, expr) ==
    IF is_match(P, {"Minus", "Plus"}).b
    THEN Only({ IF ~IsOk(right.r) THEN right
                ELSE [P |-> right.P,
                      r |-> Ok(BinaryExpr(expr, previous(Parser_advance(P)),
                                          right.r.v))]
                : right \in {term(Parser_advance(P))} })
    ELSE [P |-> P, r |-> Ok(expr)]

term_loop(P, expr) ==
    IF is_match(P, {"Minus", "Plus"}).b
    THEN Only({ IF ~IsOk(right.r) THEN right
                ELSE term_loop(
                         right.P,
                         BinaryExpr(expr,
                                    previous(Parser_advance(P)), right.r.v))
                : right \in {factor(Parser_advance(P))} })
    ELSE [P |-> P, r |-> Ok(expr)]

\* Parser::factor
factor(P) ==
    Only({ IF ~IsOk(expr.r) THEN expr ELSE factor_loop(expr.P, expr.r.v)
           : expr \in {unary(P)} })

factor_loop(P, expr) ==
    IF is_match(P, {"Slash", "Star"}).b
    THEN Only({ IF ~IsOk(right.r) THEN right
                ELSE factor_loop(
                         right.P,
                         BinaryExpr(expr,
                                    previous(Parser_advance(P)), right.r.v))
                : right \in {unary(Parser_advance(P))} })
    ELSE [P |-> P, r |-> Ok(expr)]

\* Parser::unary
unary(P) ==
    IF is_match(P, {"Bang", "Minus"}).b
    THEN Only({ IF ~IsOk(right.r) THEN right
                ELSE [P |-> right.P,
                      r |-> Ok(UnaryExpr(previous(Parser_advance(P)),
                                         right.r.v))]
                : right \in {unary(Parser_advance(P))} })
    ELSE call(P)

\* The diagnostic of more than MAX_ARGUMENTS_COUNT arguments or parameters,
\* which does not end the parse.
too_many(P, count, what) ==
    IF count >= MAX_ARGUMENTS_COUNT
    THEN Parser_error(P, Parser_peek(P),
                      "Can't have more than 255 " \o what \o ".").P
    ELSE P

\* The loop of Parser::finish_call
arguments_loop(P, arguments) ==
    IF is_match(P, {"Comma"}).b
    THEN Only({ IF ~IsOk(argument.r) THEN argument
                ELSE arguments_loop(argument.P,
                                    Append(arguments, argument.r.v))
                : argument \in
                    {expression(too_many(Parser_advance(P), Len(arguments),
                                         "arguments"))} })
    ELSE [P |-> P, r |-> Ok(arguments)]

\* Parser::finish_call
finish_call(P, callee) ==
    Only({ IF ~IsOk(arguments.r) THEN arguments
           ELSE Only({ IF ~IsOk(paren.r) THEN paren
                       ELSE [P |-> paren.P,
                             r |-> Ok(CallExpr(callee, paren.r.v,
                                               arguments.r.v))]
                       : paren \in
                           {consume(arguments.P, "RightParen",
                                    "Expect ')' after arguments.")} })
           : arguments \in
               {IF ~check(P, "RightParen")
                THEN Only({ IF ~IsOk(first.r) THEN first
                            ELSE arguments_loop(first.P, <<first.r.v>>)
                            : first \in {expression(P)} })
                ELSE [P |-> P, r |-> Ok(<<>>)]} })

\* The loop of Parser::call
call_loop(P, expr) ==
    IF is_match(P, {"LeftParen"}).b
    THEN Only({ IF ~IsOk(called.r) THEN called
                ELSE call_loop(called.P, called.r.v)
                : called \in {finish_call(Parser_advance(P), expr)} })
    ELSE [P |-> P, r |-> Ok(expr)]

\* Parser::call
call(P) ==
    Only({ IF ~IsOk(expr.r) THEN expr ELSE call_loop(expr.P, expr.r.v)
           : expr \in {primary(P)} })

\* The LeftParen branch of Parser::primary, entered after the parenthesis.
\* The history gets the position after the inner expression and the
\* position and the Result the branch ends with.
grouping(P) ==
    Only({ IF ~IsOk(expr.r) THEN expr
           ELSE [P |-> ParserLog(expr.P,
                                 [ev |-> "grouping",
                                  inner |-> expr.r.v,
                                  after_inner |-> expr.P.current,
                                  after |-> expr.P.current,
                                  r |-> Ok(GroupingExpr(expr.r.v))]),
                 r |-> Ok(GroupingExpr(expr.r.v))]
           : expr \in {expression(P)} })

\* Parser::primary
primary(P) ==
    IF is_match(P, {"False"}).b
    THEN [P |-> Parser_advance(P), r |-> Ok(LiteralExpr(Bool(FALSE)))]
    ELSE IF is_match(P, {"True"}).b
    THEN [P |-> Parser_advance(P), r |-> Ok(LiteralExpr(Bool(TRUE)))]
    ELSE IF is_match(P, {"Nil"}).b
    THEN [P |-> Parser_advance(P), r |-> Ok(LiteralExpr(Nil))]
    ELSE IF is_match(P, {"Number", "String"}).b
    THEN [P |-> Parser_advance(P),
          r |-> Ok(LiteralExpr(previous(Parser_advance(P)).literal))]
    ELSE IF is_match(P, {"LeftParen"}).b
    THEN grouping(Parser_advance(P))
    ELSE IF is_match(P, {"Identifier"}).b
    THEN [P |-> Parser_advance(P),
          r |-> Ok(VariableExpr(previous(Parser_advance(P))))]
    ELSE Parser_error(P, Parser_peek(P), "Expression expected")

\* Parser::declaration.  The history gets the declaration: the block depth
\* and the position it started at, the count of diagnostics before it, the
\* position it ended at and its Result.
declaration(P) ==
    Only({ [P |-> ParserLog(IF IsOk(result.r) THEN result.P
                            ELSE synchronize(result.P),
                            [ev |-> "declaration", depth |-> P.depth,
                             start |-> P.current,
                             reported |-> Len(P.reported),
                             end |-> IF IsOk(result.r) THEN result.P.current
                                     ELSE synchronize(result.P).current,
                             r |-> result.r]),
            r |-> result.r]
           : result \in
               {IF is_match(P, {"Var"}).b
                THEN var_declaration(Parser_advance(P))
                ELSE IF is_match(P, {"Fun"}).b
                THEN function(Parser_advance(P), "function")
                ELSE statement(P)} })

\* Parser::statement
statement(P) ==
    IF is_match(P, {"For"}).b THEN for_statement(Parser_advance(P))
    ELSE IF is_match(P, {"If"}).b THEN if_statement(Parser_advance(P))
    ELSE IF is_match(P, {"Print"}).b THEN print_statement(Parser_advance(P))
    ELSE IF is_match(P, {"Return"}).b
    THEN return_statement(Parser_advance(P))
    ELSE IF is_match(P, {"While"}).b THEN while_statement(Parser_advance(P))
    ELSE IF is_match(P, {"LeftBrace"}).b
    THEN Only({ IF ~IsOk(statements.r) THEN statements
                ELSE [P |-> statements.P,
                      r |-> Ok(BlockStmt(statements.r.v))]
                : statements \in {block(Parser_advance(P))} })
    ELSE expression_statement(P)

\* The initializer clause of Parser::for_statement
for_initializer(P) ==
    IF is_match(P, {"Semicolon"}).b
    THEN [P |-> Parser_advance(P), r |-> Ok(None)]
    ELSE IF is_match(P, {"Var"}).b THEN var_declaration(Parser_advance(P))
    ELSE expression_statement(P)

\* A clause of Parser::for_statement that is absent when the token that
\* closes it comes next.
for_clause(P, closing) ==
    IF ~check(P, closing) THEN expression(P) ELSE [P |-> P, r |-> Ok(None)]

\* The statement built with the body first in every block.
for_loop_body_last(initializer, condition, increment, body) ==
    IF initializer /= None
    THEN BlockStmt(<<WhileStmt(IF condition /= None THEN condition
                               ELSE LiteralExpr(Bool(TRUE)),
                               IF increment /= None
                               THEN BlockStmt(<<ExpressionStmt(increment),
                                                body>>)
                               ELSE body),
                     initializer>>)
    ELSE WhileStmt(IF condition /= None THEN condition
                   ELSE LiteralExpr(Bool(TRUE)),
                   IF increment /= None
                   THEN BlockStmt(<<ExpressionStmt(increment), body>>)
                   ELSE body)

\* The statement Parser::for_statement builds from the clauses and the body.
for_loop(initializer, condition, increment, body) ==
    LET with_increment ==
            IF increment /= None
            THEN BlockStmt(<<body, ExpressionStmt(increment)>>)
            ELSE body
        final_condition ==
            IF condition /= None THEN condition
            ELSE LiteralExpr(Bool(TRUE))
        loop == WhileStmt(final_condition, with_increment)
    IN IF initializer /= None THEN BlockStmt(<<initializer, loop>>)
       ELSE loop

\* Parser::for_statement.  The history gets the clauses, the body and the
\* statement built.
for_statement(P) ==
    Only({ IF ~IsOk(paren.r) THEN paren ELSE
      Only({ IF ~IsOk(initializer.r) THEN initializer ELSE
        Only({ IF ~IsOk(condition.r) THEN condition ELSE
          Only({ IF ~IsOk(semicolon.r) THEN semicolon ELSE
            Only({ IF ~IsOk(increment.r) THEN increment ELSE
              Only({ IF ~IsOk(closing.r) THEN closing ELSE
                Only({ IF ~IsOk(body.r) THEN body ELSE
                  Only({ [P |-> ParserLog(body.P,
                                    [ev |-> "for",
                                     initializer |-> initializer.r.v,
                                     condition |-> condition.r.v,
                                     increment |-> increment.r.v,
                                     body |-> body.r.v,
                                     r |-> Ok(built)]),
                          r |-> Ok(built)]
                         : built \in
                             {for_loop(initializer.r.v, condition.r.v,
                                       increment.r.v, body.r.v)} })
                  : body \in {statement(closing.P)} })
                : closing \in {consume(increment.P, "RightParen",
                                       "Expect ')' after for clauses.")} })
              : increment \in {for_clause(semicolon.P, "RightParen")} })
            : semicolon \in {consume(condition.P, "Semicolon",
                                     "Expect ';' after loop condition.")} })
          : condition \in {for_clause(initializer.P, "Semicolon")} })
        : initializer \in {for_initializer(paren.P)} })
      : paren \in {consume(P, "LeftParen", "Expect '(' after 'for'.")} })

\* The else branch of Parser::if_statement
if_else(P) ==
    IF is_match(P, {"Else"}).b THEN statement(Parser_advance(P))
    ELSE [P |-> P, r |-> Ok(None)]

\* Parser::if_statement
if_statement(P) ==
    Only({ IF ~IsOk(paren.r) THEN paren ELSE
      Only({ IF ~IsOk(condition.r) THEN condition ELSE
        Only({ IF ~IsOk(closing.r) THEN closing ELSE
          Only({ IF ~IsOk(then_branch.r) THEN then_branch ELSE
            Only({ IF ~IsOk(otherwise.r) THEN otherwise
                   ELSE [P |-> otherwise.P,
                         r |-> Ok(IfStmt(condition.r.v, then_branch.r.v,
                                         otherwise.r.v))]
                   : otherwise \in {if_else(then_branch.P)} })
            : then_branch \in {statement(closing.P)} })
          : closing \in {consume(condition.P, "RightParen",
                                 "Expect ')' after if condition.")} })
        : condition \in {expression(paren.P)} })
      : paren \in {consume(P, "LeftParen", "Expect '(' after 'if'.")} })

\* Parser::print_statement
print_statement(P) ==
    Only({ IF ~IsOk(value.r) THEN value ELSE
      Only({ IF ~IsOk(semicolon.r) THEN semicolon
             ELSE [P |-> semicolon.P, r |-> Ok(PrintStmt(value.r.v))]
             : semicolon \in {consume(value.P, "Semicolon",
                                      "Expect ';' after value.")} })
      : value \in {expression(P)} })

\* Parser::return_statement
return_statement(P) ==
    Only({ IF ~IsOk(value.r) THEN value ELSE
      Only({ IF ~IsOk(semicolon.r) THEN semicolon
             ELSE [P |-> semicolon.P,
                   r |-> Ok(ReturnStmt(previous(P), value.r.v))]
             : semicolon \in {consume(value.P, "Semicolon",
                                      "Expect ';' after return value.")} })
      : value \in {IF check(P, "Semicolon") THEN [P |-> P, r |-> Ok(None)]
                   ELSE expression(P)} })

\* The initializer of Parser::var_declaration
var_initializer(P) ==
    IF is_match(P, {"Equal"}).b THEN expression(Parser_advance(P))
    ELSE [P |-> P, r |-> Ok(None)]

\* Parser::var_declaration
var_declaration(P) ==
    Only({ IF ~IsOk(name.r) THEN name ELSE
      Only({ IF ~IsOk(initializer.r) THEN initializer ELSE
        Only({ IF ~IsOk(semicolon.r) THEN semicolon
               ELSE [P |-> semicolon.P,
                     r |-> Ok(VarStmt(name.r.v, initializer.r.v))]
               : semicolon \in
                   {consume(initializer.P, "Semicolon",
                            "Expect ';' after variable declaration.")} })
        : initializer \in {var_initializer(name.P)} })
      : name \in {consume(P, "Identifier", "Expect variable name.")} })

\* Parser::while_statement
while_statement(P) ==
    Only({ IF ~IsOk(paren.r) THEN paren ELSE
      Only({ IF ~IsOk(condition.r) THEN condition ELSE
        Only({ IF ~IsOk(closing.r) THEN closing ELSE
          Only({ IF ~IsOk(body.r) THEN body
                 ELSE [P |-> body.P,
                       r |-> Ok(WhileStmt(condition.r.v, body.r.v))]
                 : body \in {statement(closing.P)} })
          : closing \in {consume(condition.P, "RightParen",
                                 "Expect ')' after condition.")} })
        : condition \in {expression(paren.P)} })
      : paren \in {consume(P, "LeftParen", "Expect '(' after 'while'.")} })

\* Parser::expression_statement
expression_statement(P) ==
    Only({ IF ~IsOk(expr.r) THEN expr ELSE
      Only({ IF ~IsOk(semicolon.r) THEN semicolon
             ELSE [P |-> semicolon.P, r |-> Ok(ExpressionStmt(expr.r.v))]
             : semicolon \in {consume(expr.P, "Semicolon",
                                      "Expect ';' after value.")} })
      : expr \in {expression(P)} })

\* The loop of Parser::function over the parameters after the first
RECURSIVE parameters_loop(_, _)
parameters_loop(P, parameters) ==
    IF is_match(P, {"Comma"}).b
    THEN Only({ IF ~IsOk(name.r) THEN name
                ELSE parameters_loop(name.P, Append(parameters, name.r.v))
                : name \in
                    {consume(too_many(Parser_advance(P), Len(parameters),
                                      "parameters"),
                             "Identifier", "Expect parameter name.")} })
    ELSE [P |-> P, r |-> Ok(parameters)]

\* The parameter list of Parser::function
function_parameters(P) ==
    IF ~check(P, "RightParen")
    THEN Only({ IF ~IsOk(first.r) THEN first
                ELSE parameters_loop(first.P, <<first.r.v>>)
                : first \in {consume(P, "Identifier",
                                     "Expect parameter name.")} })
    ELSE [P |-> P, r |-> Ok(<<>>)]

\* Parser::function
function(P, kind) ==
    Only({ IF ~IsOk(name.r) THEN name ELSE
      Only({ IF ~IsOk(paren.r) THEN paren ELSE
        Only({ IF ~IsOk(parameters.r) THEN parameters ELSE
          Only({ IF ~IsOk(closing.r) THEN closing ELSE
            Only({ IF ~IsOk(brace.r) THEN brace ELSE
              Only({ IF ~IsOk(body.r) THEN body
                     ELSE [P |-> body.P,
                           r |-> Ok(FunctionStmt(name.r.v, parameters.r.v,
                                                 body.r.v))]
                     : body \in {block(brace.P)} })
              : brace \in {consume(closing.P, "LeftBrace",
                                   "Expect '{' before " \o kind
                                       \o " body.")} })
            : closing \in {consume(parameters.P, "RightParen",
                                   "Expect ')' after parameters.")} })
          : parameters \in {function_parameters(paren.P)} })
        : paren \in {consume(name.P, "LeftParen",
                             "Expect '(' after " \o kind \o " name.")} })
      : name \in {consume(P, "Identifier",
                          "Expect " \o kind \o " name")} })

\* The loop of Parser::block and the closing brace
block_loop(P, statements) ==
    IF ~check(P, "RightBrace") /\ ~Parser_is_at_end(P)
    THEN Only({ IF ~IsOk(declared.r) THEN declared
                ELSE block_loop(declared.P,
                                Append(statements, declared.r.v))
                : declared \in {declaration(P)} })
    ELSE Only({ IF ~IsOk(brace.r) THEN brace
                ELSE [P |-> brace.P, r |-> Ok(statements)]
                : brace \in {consume(P, "RightBrace",
                                     "Expect '}' after block.")} })

\* Parser::block; the history's depth is one more inside.
block(P) ==
    Only({ [P |-> [statements.P EXCEPT !.depth = P.depth],
            r |-> statements.r]
           : statements \in {block_loop([P EXCEPT !.depth = @ + 1], <<>>)} })

(***************************************************************************)
(* The scanner as Lox::run drives it (src/src/lox.rs 26-27).               *)
(***************************************************************************)
\* The characters generated sources are made of.
SourceChars == {"1", "a", "/", "*", "\"", "\n", ";", MultiByte}

RECURSIVE SeqsUpTo(_, _)
SeqsUpTo(S, n) ==
    IF n = 0 THEN {<<>>}
    ELSE LET shorter == SeqsUpTo(S, n - 1)
         IN shorter \cup {Append(q, x) : q \in {r \in shorter : Len(r) = n - 1},
                                          x \in S}

\* A closed block comment with a nested one, and a statement after it.
ClosedComment ==
    <<"/", "*", "a", "/", "*", "\n", "*", "/", "*", "/", "1", ";", "\n">>

\* A closed block comment of two-byte characters that ends the source.
TwoByteComment == <<"/", "*", MultiByte, MultiByte, "*", "/">>

\* A line comment, a block comment and a string that each hold or end on a
\* newline, a newline between tokens, and a word on the fifth line.
FiveLines ==
    <<"/", "/", "a", "\n", "/", "*", "\n", "*", "/", "\"", "\n", "\"",
      "\n", "a", " ">>

\* Source texts of their own: block comments left open, with an inner
\* opener on a later line; two-byte characters before a word and before a
\* string.
ScenarioSources ==
    { <<"/", "*", "\n", "/", "*", " ", "x">>,
      <<"/", "*", "\n", "/", "*", " ", "*", "/", "\n", "x", " ">>,
      <<"/", "*", " ", "/", "*", "\n", "*", "/", " ", "*", "/", "a", ";", "\n">>,
      <<MultiByte, MultiByte, "a", "a", " ">>,
      <<"\"", MultiByte, MultiByte, "\"", " ">>,
      <<"\"", "a", "\n", "1", "\"", ";", "\n">>,
      ClosedComment, TwoByteComment, FiveLines }

Sources == SeqsUpTo(SourceChars, MaxSourceLen) \cup ScenarioSources

\* Scanner::new(&source)
ScannerNew ==
    /\ scan_pc = "new"
    /\ \E overflow_checks \in BOOLEAN :
          scanner' = Scanner_new(scanner.source, overflow_checks)
    /\ scan_pc' = IF scanner'.panicked THEN "panicked" ELSE "scanning"
    /\ UNCHANGED <<interpVars, parseVars, runVars>>

\* One iteration of the loop of scan_tokens.
ScanToken ==
    /\ scan_pc = "scanning"
    /\ ~is_at_end(scanner)
    /\ scanner' = scan_tokens_step(scanner)
    /\ scan_pc' = IF scanner'.panicked THEN "panicked" ELSE "scanning"
    /\ UNCHANGED <<interpVars, parseVars, runVars>>

\* The loop of scan_tokens ends: EOF is pushed and the tokens are returned.
ScanTokensEnd ==
    /\ scan_pc = "scanning"
    /\ is_at_end(scanner)
    /\ scanner' = scan_tokens_end(scanner)
    /\ scan_pc' = "done"
    /\ UNCHANGED <<interpVars, parseVars, runVars>>

(***************************************************************************)
(* Programs: the statement lists the parser produces for the source texts  *)
(* written beside them (src/src/parser.rs); every token is on line 1.      *)
(***************************************************************************)
Tok(token_type, lexeme) == Token(token_type, lexeme, None, 1)

Ident(name) == Tok("Identifier", name)

OperatorToken(token_type) ==
    Tok(token_type,
        CASE token_type = "Plus" -> "+" [] token_type = "Minus" -> "-"
          [] token_type = "Star" -> "*" [] token_type = "Slash" -> "/"
          [] token_type = "Greater" -> ">" [] token_type = "GreaterEqual" -> ">="
          [] token_type = "Less" -> "<" [] token_type = "LessEqual" -> "<="
          [] token_type = "EqualEqual" -> "==" [] token_type = "BangEqual" -> "!="
          [] token_type = "Or" -> "or" [] token_type = "And" -> "and"
          [] token_type = "Bang" -> "!")

Num(n) == LiteralExpr(Number(F64(n)))

Str(s) == LiteralExpr(String(s))

True == LiteralExpr(Bool(TRUE))

False == LiteralExpr(Bool(FALSE))

NilLit == LiteralExpr(Nil)

Var(name) == VariableExpr(Ident(name))

Bin(left, token_type, right) ==
    BinaryExpr(left, OperatorToken(token_type), right)

Logic(left, token_type, right) ==
    LogicalExpr(left, OperatorToken(token_type), right)

Call(callee, arguments) == CallExpr(callee, Tok("RightParen", ")"), arguments)

Assign(name, value) == AssignExpr(Ident(name), value)

Prints(value) == PrintStmt(value)

Expression(value) == ExpressionStmt(value)

VarDecl(name, initializer) == VarStmt(Ident(name), initializer)

Fun(name, params, body) ==
    FunctionStmt(Ident(name), [i \in 1..Len(params) |-> Ident(params[i])],
                 body)

Return(value) == ReturnStmt(Tok("Return", "return"), value)

Block(statements) == BlockStmt(statements)

If(condition, then_branch, else_branch) ==
    IfStmt(condition, then_branch, else_branch)

While(condition, body) == WhileStmt(condition, body)

\* The statements generated statement lists are made of.
StatementPool ==
    { VarDecl("x", Num(1)),                         \* var x = 1;
      VarDecl("x", None),                           \* var x;
      Prints(Var("x")),                              \* print x;
      Expression(Assign("x", Bin(Var("x"), "Plus", Num(1)))),
                                                    \* x = x + 1;
      Block(<<VarDecl("x", Num(2)), Prints(Var("x"))>>),
                                                    \* { var x = 2; print x; }
      Fun("f", <<>>, <<Return(Var("x"))>>),         \* fun f() { return x; }
      Prints(Call(Var("f"), <<>>)),                  \* print f();
      Return(Num(1)),                               \* return 1;
      Block(<<If(Var("x"), Return(None), None), Prints(Str("kept"))>>),
                                     \* { if (x) return; print "kept"; }
      Prints(Logic(Var("x"), "Or", Call(Var("f"), <<>>))),
                                                    \* print x or f();
      Prints(Bin(Var("clock"), "Less", Call(Var("clock"), <<>>)))
                                                    \* print clock < clock();
    }

\* The operand expressions and operators of the generated binary
\* expressions; `f` is a user function.
Operands ==
    {Num(0), Num(1), Str(""), Str("a"), True, False, NilLit, Var("clock"),
     Var("f")}

BinaryOperators ==
    {"Plus", "Minus", "Star", "Slash", "Greater", "GreaterEqual", "Less",
     "LessEqual", "EqualEqual", "BangEqual"}

\* fun f() {} print L op R;
BinaryPrograms ==
    { <<Fun("f", <<>>, <<>>), Prints(Bin(l, op, r))>> :
        l \in Operands, r \in Operands, op \in BinaryOperators }

\* fun make() { var c = 0; fun inc() { c = c + 1; return c; } return inc; }
\* var f = make(); print f(); print f(); print f();
MakeInc ==
    << Fun("make", <<>>,
           << VarDecl("c", Num(0)),
              Fun("inc", <<>>,
                  << Expression(Assign("c", Bin(Var("c"), "Plus", Num(1)))),
                     Return(Var("c")) >>),
              Return(Var("inc")) >>),
       VarDecl("f", Call(Var("make"), <<>>)),
       Prints(Call(Var("f"), <<>>)),
       Prints(Call(Var("f"), <<>>)),
       Prints(Call(Var("f"), <<>>)) >>

\* var x = "global"; { var x = "local"; fun show() { print x; } show(); }
DefinitionSite ==
    << VarDecl("x", Str("global")),
       Block(<< VarDecl("x", Str("local")),
                Fun("show", <<>>, <<Prints(Var("x"))>>),
                Expression(Call(Var("show"), <<>>)) >>) >>

\* fun fib(n) { if (n < 2) return n; return fib(n - 1) + fib(n - 2); }
\* print fib(3);
Fib ==
    << Fun("fib", <<"n">>,
           << If(Bin(Var("n"), "Less", Num(2)), Return(Var("n")), None),
              Return(Bin(Call(Var("fib"), <<Bin(Var("n"), "Minus", Num(1))>>),
                         "Plus",
                         Call(Var("fib"), <<Bin(Var("n"), "Minus", Num(2))>>)))
           >>),
       Prints(Call(Var("fib"), <<Num(3)>>)) >>

\* var i = 0; while (i < 3) { print i; i = i + 1; }
CountLoop ==
    << VarDecl("i", Num(0)),
       While(Bin(Var("i"), "Less", Num(3)),
             Block(<< Prints(Var("i")),
                      Expression(Assign("i", Bin(Var("i"), "Plus", Num(1))))
                   >>)) >>

\* var x = 1; { var x = 2; print x; } print x;
Shadowing ==
    << VarDecl("x", Num(1)),
       Block(<<VarDecl("x", Num(2)), Prints(Var("x"))>>),
       Prints(Var("x")) >>

\* fun bad() { print "in"; print 1 - nil; print "unreached"; }
\* print bad(); print "after";
ErrorInBody ==
    << Fun("bad", <<>>,
           << Prints(Str("in")),
              Prints(Bin(Num(1), "Minus", NilLit)),
              Prints(Str("unreached")) >>),
       Prints(Call(Var("bad"), <<>>)),
       Prints(Str("after")) >>

\* fun first(n) { var i = 0; while (true) { i = i + 1;
\*   if (i == n) { return i; } print i; } print "unreached"; }
\* print first(2);
ReturnInLoop ==
    << Fun("first", <<"n">>,
           << VarDecl("i", Num(0)),
              While(True,
                    Block(<< Expression(Assign("i",
                                Bin(Var("i"), "Plus", Num(1)))),
                             If(Bin(Var("i"), "EqualEqual", Var("n")),
                                Block(<<Return(Var("i"))>>), None),
                             Prints(Var("i")) >>)),
              Prints(Str("unreached")) >>),
       Prints(Call(Var("first"), <<Num(2)>>)) >>

\* fun bare() { return; print "unreached"; } fun none() { print "body"; }
\* print bare(); print none();
BareReturn ==
    << Fun("bare", <<>>, <<Return(None), Prints(Str("unreached"))>>),
       Fun("none", <<>>, <<Prints(Str("body"))>>),
       Prints(Call(Var("bare"), <<>>)),
       Prints(Call(Var("none"), <<>>)) >>

\* var n = 0; fun yes() { n = n + 1; return true; }
\* fun no() { n = n + 1; return false; }
\* print yes() or no(); print no() and yes(); print no() or yes();
\* print yes() and no(); print nil or 0; print "" and nil; print n;
ShortCircuit ==
    << VarDecl("n", Num(0)),
       Fun("yes", <<>>,
           << Expression(Assign("n", Bin(Var("n"), "Plus", Num(1)))),
              Return(True) >>),
       Fun("no", <<>>,
           << Expression(Assign("n", Bin(Var("n"), "Plus", Num(1)))),
              Return(False) >>),
       Prints(Logic(Call(Var("yes"), <<>>), "Or", Call(Var("no"), <<>>))),
       Prints(Logic(Call(Var("no"), <<>>), "And", Call(Var("yes"), <<>>))),
       Prints(Logic(Call(Var("no"), <<>>), "Or", Call(Var("yes"), <<>>))),
       Prints(Logic(Call(Var("yes"), <<>>), "And", Call(Var("no"), <<>>))),
       Prints(Logic(NilLit, "Or", Num(0))),
       Prints(Logic(Str(""), "And", NilLit)),
       Prints(Var("n")) >>

\* { var a = 1; { print missing; } } print "next";
ErrorInBlock ==
    << Block(<< VarDecl("a", Num(1)), Block(<<Prints(Var("missing"))>>) >>),
       Prints(Str("next")) >>

\* while (true) { { return 1; } }
ReturnInTopLevelLoop ==
    << While(True, Block(<<Block(<<Return(Num(1))>>)>>)) >>

\* var x = 1; { var y = 2; { var x; print y; print x; } }
ImplicitShadow ==
    << VarDecl("x", Num(1)),
       Block(<< VarDecl("y", Num(2)),
                Block(<< VarDecl("x", None), Prints(Var("y")),
                         Prints(Var("x")) >>) >>) >>

\* var x = 1; { x = 2; { var x = 3; x = 4; print x; } print x; } y = 5;
AssignScopes ==
    << VarDecl("x", Num(1)),
       Block(<< Expression(Assign("x", Num(2))),
                Block(<< VarDecl("x", Num(3)),
                         Expression(Assign("x", Num(4))),
                         Prints(Var("x")) >>),
                Prints(Var("x")) >>),
       Expression(Assign("y", Num(5))) >>

\* fun f(a) { print a; } fun g() { f(1, 2); } g();
\* var x = 1; x(x = 2, x = 3);
CallChecks ==
    << Fun("f", <<"a">>, << Prints(Var("a")) >>),
       Fun("g", <<>>,
           << Expression(Call(Var("f"), << Num(1), Num(2) >>)) >>),
       Expression(Call(Var("g"), <<>>)),
       VarDecl("x", Num(1)),
       Expression(Call(Var("x"),
                       << Assign("x", Num(2)), Assign("x", Num(3)) >>)) >>

\* fun f() {}
\* if (0) print "zero"; if ("") print "empty"; if (f) print "fun";
\* if (nil) print "nil"; else print "not nil"; if (false) print "false";
\* print !0; print !nil; print !""; print !f; print 0 and 1;
\* print nil or "x"; print false and 1;
\* var n = 0; while (n) { print "loop"; n = nil; }
\* while ("") { print "once"; return; }
Truthiness ==
    << Fun("f", <<>>, <<>>),
       If(Num(0), Prints(Str("zero")), None),
       If(Str(""), Prints(Str("empty")), None),
       If(Var("f"), Prints(Str("fun")), None),
       If(NilLit, Prints(Str("nil")), Prints(Str("not nil"))),
       If(False, Prints(Str("false")), None),
       Prints(UnaryExpr(OperatorToken("Bang"), Num(0))),
       Prints(UnaryExpr(OperatorToken("Bang"), NilLit)),
       Prints(UnaryExpr(OperatorToken("Bang"), Str(""))),
       Prints(UnaryExpr(OperatorToken("Bang"), Var("f"))),
       Prints(Logic(Num(0), "And", Num(1))),
       Prints(Logic(NilLit, "Or", Str("x"))),
       Prints(Logic(False, "And", Num(1))),
       VarDecl("n", Num(0)),
       While(Var("n"),
             Block(<<Prints(Str("loop")), Expression(Assign("n", NilLit))>>)),
       While(Str(""),
             Block(<<Prints(Str("once")), Return(None)>>)) >>

\* var x; fun get() { return x; } print get(); var y = get(); print y;
\* fun id(a) { return a; } id(x);
Uninitialized ==
    << VarDecl("x", None),
       Fun("get", <<>>, <<Return(Var("x"))>>),
       Prints(Call(Var("get"), <<>>)),
       VarDecl("y", Call(Var("get"), <<>>)),
       Prints(Var("y")),
       Fun("id", <<"a">>, <<Return(Var("a"))>>),
       Expression(Call(Var("id"), <<Var("x")>>)) >>

ScenarioPrograms ==
    {Uninitialized, Truthiness, CallChecks, MakeInc, DefinitionSite, Fib, CountLoop, Shadowing, ErrorInBody,
     ReturnInLoop, BareReturn, ShortCircuit, ErrorInBlock,
     ReturnInTopLevelLoop, ImplicitShadow, AssignScopes}

Programs ==
    SeqsUpTo(StatementPool, MaxStmts) \cup BinaryPrograms
        \cup ScenarioPrograms

\* What SystemTime::now() may answer, in microseconds since the epoch.
Times == {-1, 7}

(***************************************************************************)
(* Interpreter::interpret (interpreter.rs 340-349).                        *)
(***************************************************************************)
\* One iteration of interpret's loop: self.execute(statement)?  The
\* history gets the iteration, with the global environment it starts in.
Execute ==
    /\ status = "running"
    /\ pc <= Len(program)
    /\ \E now \in Times :
          \E R \in {execute(Log([interp EXCEPT !.now = now],
                                [ev |-> "interpret", pc |-> pc,
                                 globals |-> interp.envs[interp.globals]]),
                            program[pc])} :
             /\ interp' = [R.I EXCEPT !.now = 0]
             /\ pc' = IF IsOk(R.r) THEN pc + 1 ELSE pc
             /\ status' = CASE R.r.k = "Ok" -> "running"
                            [] R.r.k = "Panic" -> "panicked"
                            [] OTHER -> "returned"
             /\ interpret_result' = IF IsOk(R.r) THEN interpret_result ELSE R.r
    /\ UNCHANGED <<program, scanVars, parseVars, runVars>>

\* The loop is over: Ok(())
InterpretOk ==
    /\ status = "running"
    /\ pc > Len(program)
    /\ status' = "returned"
    /\ interpret_result' = OkUnit
    /\ UNCHANGED <<program, interp, pc, scanVars, parseVars, runVars>>

(***************************************************************************)
(* Parser::parse (parser.rs 46-54) on the token lists below; every token   *)
(* is on line 1.                                                           *)
(***************************************************************************)
MaxTokens == 3

\* The lexeme the scanner puts in a token of a type that has one spelling.
Lexeme(token_type) ==
    CASE token_type = "LeftParen" -> "(" [] token_type = "RightParen" -> ")"
      [] token_type = "LeftBrace" -> "{" [] token_type = "RightBrace" -> "}"
      [] token_type = "Semicolon" -> ";" [] token_type = "Comma" -> ","
      [] token_type = "Equal" -> "=" [] token_type = "Print" -> "print"
      [] token_type = "Var" -> "var" [] token_type = "For" -> "for"
      [] token_type = "Fun" -> "fun" [] token_type = "If" -> "if"
      [] token_type = "EOF" -> ""
      [] OTHER -> OperatorToken(token_type).lexeme

\* The token of a type that has one spelling.
T(token_type) == Tok(token_type, Lexeme(token_type))

\* The token of a one-digit number.
NumberToken(digit) ==
    Token("Number", digit, Number(F64(DigitValue(digit))), 1)

\* The tokens generated token lists are made of.
TokenPool ==
    {T("LeftParen"), T("RightParen"), T("LeftBrace"), T("RightBrace"),
     T("Semicolon"), T("Print"), T("Equal"), T("Plus"), NumberToken("1"),
     Ident("x")}

\* for (var i = 0; i < 3; i = i + 1) print i;
ForAllClauses ==
    << T("For"), T("LeftParen"), T("Var"), Ident("i"), T("Equal"),
       NumberToken("0"), T("Semicolon"), Ident("i"), T("Less"),
       NumberToken("3"), T("Semicolon"), Ident("i"), T("Equal"), Ident("i"),
       T("Plus"), NumberToken("1"), T("RightParen"), T("Print"), Ident("i"),
       T("Semicolon"), T("EOF") >>

\* for (;;) print 1;
ForNoClause ==
    << T("For"), T("LeftParen"), T("Semicolon"), T("Semicolon"),
       T("RightParen"), T("Print"), NumberToken("1"), T("Semicolon"),
       T("EOF") >>

\* for (; i < 3; i = i + 1) print i;
ForNoInitializer ==
    << T("For"), T("LeftParen"), T("Semicolon"), Ident("i"), T("Less"),
       NumberToken("3"), T("Semicolon"), Ident("i"), T("Equal"), Ident("i"),
       T("Plus"), NumberToken("1"), T("RightParen"), T("Print"), Ident("i"),
       T("Semicolon"), T("EOF") >>

\* for (i = 0; i < 3;) { print i; }
ForNoIncrement ==
    << T("For"), T("LeftParen"), Ident("i"), T("Equal"), NumberToken("0"),
       T("Semicolon"), Ident("i"), T("Less"), NumberToken("3"),
       T("Semicolon"), T("RightParen"), T("LeftBrace"), T("Print"),
       Ident("i"), T("Semicolon"), T("RightBrace"), T("EOF") >>

\* for (var i = 0;; i = i + 1) print i;
ForNoCondition ==
    << T("For"), T("LeftParen"), T("Var"), Ident("i"), T("Equal"),
       NumberToken("0"), T("Semicolon"), T("Semicolon"), Ident("i"),
       T("Equal"), Ident("i"), T("Plus"), NumberToken("1"), T("RightParen"),
       T("Print"), Ident("i"), T("Semicolon"), T("EOF") >>

\* (1 + 2) * 3;
GroupedSum ==
    << T("LeftParen"), NumberToken("1"), T("Plus"), NumberToken("2"),
       T("RightParen"), T("Star"), NumberToken("3"), T("Semicolon"),
       T("EOF") >>

\* print (1 + 2;
MissingParen ==
    << T("Print"), T("LeftParen"), NumberToken("1"), T("Plus"),
       NumberToken("2"), T("Semicolon"), T("EOF") >>

\* print ; print 1;
ErrorAtTopLevel ==
    << T("Print"), T("Semicolon"), T("Print"), NumberToken("1"),
       T("Semicolon"), T("EOF") >>

\* { print ; print 1; } print 2;
ErrorInABlock ==
    << T("LeftBrace"), T("Print"), T("Semicolon"), T("Print"),
       NumberToken("1"), T("Semicolon"), T("RightBrace"), T("Print"),
       NumberToken("2"), T("Semicolon"), T("EOF") >>

\* fun f(a, b) { { var = 1; var x = 2; } } print f(1, 2);
ErrorInAFunction ==
    << T("Fun"), Ident("f"), T("LeftParen"), Ident("a"), T("Comma"),
       Ident("b"), T("RightParen"), T("LeftBrace"), T("LeftBrace"),
       T("Var"), T("Equal"), NumberToken("1"), T("Semicolon"), T("Var"),
       Ident("x"), T("Equal"), NumberToken("2"), T("Semicolon"),
       T("RightBrace"), T("RightBrace"), T("Print"), Ident("f"),
       T("LeftParen"), NumberToken("1"), T("Comma"), NumberToken("2"),
       T("RightParen"), T("Semicolon"), T("EOF") >>

\* if (!x == nil or true and false) return -1; else while (x <= 1) x = "s";
EveryStatement ==
    << T("If"), T("LeftParen"), T("Bang"), Ident("x"), T("EqualEqual"),
       Tok("Nil", "nil"), T("Or"), Tok("True", "true"), T("And"),
       Tok("False", "false"), T("RightParen"), Tok("Return", "return"),
       T("Minus"), NumberToken("1"), T("Semicolon"), Tok("Else", "else"),
       Tok("While", "while"), T("LeftParen"), Ident("x"), T("LessEqual"),
       NumberToken("1"), T("RightParen"), Ident("x"), T("Equal"),
       Token("String", "\"s\"", String("s"), 1), T("Semicolon"),
       T("EOF") >>

ScenarioTokens ==
    {ForAllClauses, ForNoClause, ForNoInitializer, ForNoIncrement,
     ForNoCondition, GroupedSum, MissingParen, ErrorAtTopLevel,
     ErrorInABlock, ErrorInAFunction, EveryStatement}

\* The token lists parsed: scan_tokens ends every list with the one EOF.
TokenLists ==
    {Append(tokens, T("EOF")) : tokens \in SeqsUpTo(TokenPool, MaxTokens)}
        \cup ScenarioTokens

\* One iteration of the loop of Parser::parse
ParseDeclaration ==
    /\ parse_pc = "parsing"
    /\ ~Parser_is_at_end(parser)
    /\ \E R \in {declaration(parser)} :
          /\ parser' = R.P
          /\ parse_statements' = IF IsOk(R.r)
                                 THEN Append(parse_statements, R.r.v)
                                 ELSE parse_statements
    /\ UNCHANGED <<parse_pc, scanVars, interpVars, runVars>>

\* The loop is over: Ok(statements)
ParseReturn ==
    /\ parse_pc = "parsing"
    /\ Parser_is_at_end(parser)
    /\ parse_pc' = "done"
    /\ UNCHANGED <<parser, parse_statements, scanVars, interpVars, runVars>>

(***************************************************************************)
(* Lox::run (src/src/lox.rs 25-51).  The printout of the tree (line 34)    *)
(* goes to stdout and changes nothing else; it is left out.                *)
(***************************************************************************)
\* Lox::new
Lox_new == [had_error |-> FALSE, had_runtime_error |-> FALSE]

\* var x=1;x=2;print x;print y;x=3;print x;
RuntimeErrorSource ==
    <<"v", "a", "r", " ", "x", "=", "1", ";", "x", "=", "2", ";", "p", "r",
      "i", "n", "t", " ", "x", ";", "p", "r", "i", "n", "t", " ", "y", ";",
      "x", "=", "3", ";", "p", "r", "i", "n", "t", " ", "x", ";", "\n">>

\* print 1+2*3;
PrecedenceSource ==
    << "p", "r", "i", "n", "t", " ", "1", "+", "2", "*", "3", ";", "\n" >>

\* print 7-2-1;print 8/4/2;
LeftAssociativeSource ==
    << "p", "r", "i", "n", "t", " ", "7", "-", "2", "-", "1", ";", "p", "r",
       "i", "n", "t", " ", "8", "/", "4", "/", "2", ";", "\n" >>

\* print false and false or true==1<2+0*1;
EveryLevelSource ==
    << "p", "r", "i", "n", "t", " ", "f", "a", "l", "s", "e", " ", "a", "n",
       "d", " ", "f", "a", "l", "s", "e", " ", "o", "r", " ", "t", "r", "u",
       "e", "=", "=", "1", "<", "2", "+", "0", "*", "1", ";", "\n" >>

\* Source texts run from end to end.
RunSources ==
    { <<"p", "r", "i", "n", "t", " ", "1", ";", "\n">>,
      <<"p", "r", "i", "n", "t", " ", ";", "p", "r", "i", "n", "t", " ",
        "2", ";", "\n">>,
      <<"?", "p", "r", "i", "n", "t", " ", "3", ";", "\n">>,
      <<"p", "r", "i", "n", "t", " ", "x", ";", "\n">>,
      <<"v", "a", "r", " ", "x", "=", "1", ";", "p", "r", "i", "n", "t",
        " ", "x", "+", "x", ";", "\n">>,
      <<"{", "p", "r", "i", "n", "t", ";", "x", ";", "}", "p", "r", "i",
        "n", "t", " ", "4", ";", "\n">>,
      <<"p", "r", "i", "n", "t", " ", "\"", "a", "\n">>,
      <<"(", "1", ")", ";", "\n">>,
      <<"p", "r", "i", "n", "t", " ", "1", "+", ";", "\n">>,
      RuntimeErrorSource, PrecedenceSource, LeftAssociativeSource,
      EveryLevelSource,
      <<"p", "r", "i", "n", "t", " ", "1", ";", "p", "r", "i", "n", "t",
        " ", "-", "n", "i", "l", ";", "p", "r", "i", "n", "t", " ", "2",
        ";", "\n">>,
      <<"\n">>,
      <<>> }

\* let mut parser = Parser::new(tokens)
ParserNew ==
    /\ run_pc = "running"
    /\ scan_pc = "done"
    /\ parse_pc = "idle"
    /\ parser' = Parser_new(scanner.tokens)
    /\ parse_statements' = <<>>
    /\ parse_pc' = "parsing"
    /\ UNCHANGED <<scanVars, interpVars, runVars>>

\* What Parser::parse returns (parser.rs 53).
parse(statements) == Ok(statements)

\* match parser.parse(): on Ok, Interpreter::new() and the call of
\* interpret; on Err, had_error and the return.
MatchParse ==
    /\ run_pc = "running"
    /\ parse_pc = "done"
    /\ status = "idle"
    /\ IF IsOk(parse(parse_statements))
       THEN /\ program' = parse(parse_statements).v
            /\ interp' = Interpreter_new
            /\ pc' = 1
            /\ status' = "running"
            /\ UNCHANGED <<lox, run_pc>>
       ELSE /\ lox' = [lox EXCEPT !.had_error = TRUE]
            /\ run_pc' = "done"
            /\ UNCHANGED <<program, interp, pc, status>>
    /\ UNCHANGED <<interpret_result, scanVars, parseVars>>

\* The match without its Err arm.
match_interpret_ok_only(L, result) == L

\* The Lox struct after match interpreter.interpret(..) (lox.rs 44-50).
match_interpret(L, result) ==
    IF IsOk(result) THEN L ELSE [L EXCEPT !.had_runtime_error = TRUE]

\* match interpreter.interpret(..): on Err, had_runtime_error.
MatchInterpret ==
    /\ run_pc = "running"
    /\ status = "returned"
    /\ lox' = match_interpret(lox, interpret_result)
    /\ run_pc' = "done"
    /\ UNCHANGED <<scanVars, parseVars, interpVars>>

(***************************************************************************)
(* Specifications.                                                         *)
(***************************************************************************)
\* Interpreter::new(), then interpret(&statements)
Init ==
    /\ program \in Programs
    /\ interp = Interpreter_new
    /\ pc = 1
    /\ status = "running"
    /\ interpret_result = None
    /\ scanner = [source |-> <<>>]
    /\ scan_pc = "idle"
    /\ parser = Parser_new(<<>>)
    /\ parse_statements = <<>>
    /\ parse_pc = "idle"
    /\ lox = Lox_new
    /\ run_pc = "idle"

Next == Execute \/ InterpretOk

Spec == Init /\ [][Next]_vars

\* Scanner::new(&source), then scan_tokens()
InitScan ==
    /\ scanner \in {[source |-> src] : src \in Sources}
    /\ scan_pc = "new"
    /\ program = <<>>
    /\ interp = Interpreter_new
    /\ pc = 1
    /\ status = "idle"
    /\ interpret_result = None
    /\ parser = Parser_new(<<>>)
    /\ parse_statements = <<>>
    /\ parse_pc = "idle"
    /\ lox = Lox_new
    /\ run_pc = "idle"

NextScan == ScannerNew \/ ScanToken \/ ScanTokensEnd

SpecScan == InitScan /\ [][NextScan]_vars

\* Parser::new(tokens), then parse()
InitParse ==
    /\ parser \in {Parser_new(tokens) : tokens \in TokenLists}
    /\ parse_statements = <<>>
    /\ parse_pc = "parsing"
    /\ scanner = [source |-> <<>>]
    /\ scan_pc = "idle"
    /\ program = <<>>
    /\ interp = Interpreter_new
    /\ pc = 1
    /\ status = "idle"
    /\ interpret_result = None
    /\ lox = Lox_new
    /\ run_pc = "idle"

NextParse == ParseDeclaration \/ ParseReturn

SpecParse == InitParse /\ [][NextParse]_vars

\* Lox::new(), then run(source)
InitRun ==
    /\ scanner \in {[source |-> src] : src \in RunSources}
    /\ scan_pc = "new"
    /\ parser = Parser_new(<<>>)
    /\ parse_statements = <<>>
    /\ parse_pc = "idle"
    /\ program = <<>>
    /\ interp = Interpreter_new
    /\ pc = 1
    /\ status = "idle"
    /\ interpret_result = None
    /\ lox = Lox_new
    /\ run_pc = "running"

NextRun ==
    \/ ScannerNew \/ ScanToken \/ ScanTokensEnd
    \/ ParserNew \/ ParseDeclaration \/ ParseReturn
    \/ MatchParse
    \/ Execute \/ InterpretOk
    \/ MatchInterpret

SpecRun == InitRun /\ [][NextRun]_vars

(***************************************************************************)
(* The history of a run, as the properties below read it.                  *)
(***************************************************************************)
history == interp.trace

Events(ev) == {i \in DOMAIN history : history[i].ev = ev}

\* The line where the evaluation that starts at line i ends.
ExitOf(i) ==
    CHOOSE j \in (i + 1)..Len(history) :
        /\ history[j].ev = "eval_exit"
        /\ history[j].depth = history[i].depth
        /\ \A k \in (i + 1)..(j - 1) :
              ~(history[k].ev = "eval_exit"
                /\ history[k].depth = history[i].depth)

\* The evaluations that the evaluation starting at line i starts itself.
Kids(i) ==
    {k \in (i + 1)..(ExitOf(i) - 1) :
        history[k].ev = "eval_enter" /\ history[k].depth = history[i].depth + 1}

\* The evaluations of binary expressions with an operator of ops whose two
\* operands both evaluated to a value: [i, left, right, r], the line where
\* it starts, the operand values and the Result.
BinaryEvaluations(ops) ==
    UNION { { [i |-> i, left |-> history[ExitOf(t[1])].r.v,
               right |-> history[ExitOf(t[2])].r.v,
               r |-> history[ExitOf(i)].r] :
                t \in { t \in Kids(i) \X Kids(i) :
                          /\ Kids(i) = {t[1], t[2]}
                          /\ t[1] < t[2]
                          /\ IsOk(history[ExitOf(t[1])].r)
                          /\ IsOk(history[ExitOf(t[2])].r) } } :
            i \in { i \in Events("eval_enter") :
                      /\ history[i].expr.e = "Binary"
                      /\ history[i].expr.operator.token_type \in ops } }

(***************************************************************************)
(* Properties of the scanner (under SpecScan).                             *)
(***************************************************************************)
\* C1: for every input string, the empty one included, Scanner::new followed
\* by scan_tokens does not panic, and the tokens it returns end with an EOF
\* token and hold no other EOF token.
ScanEndsWithOneEOF ==
    /\ scan_pc /= "panicked"
    /\ scan_pc = "done" =>
          /\ scanner.tokens /= <<>>
          /\ \A i \in DOMAIN scanner.tokens :
                (scanner.tokens[i].token_type = "EOF")
                    <=> (i = Len(scanner.tokens))

\* The lines of the openers still unmatched at the end of a text that is
\* inside a block comment from character i on, outermost first; stack holds
\* the lines of the openers unmatched so far.
RECURSIVE OpenComments(_, _, _, _)
OpenComments(chars, i, line, stack) ==
    IF stack = <<>> \/ i > Len(chars) THEN stack
    ELSE IF i < Len(chars) /\ chars[i] = "*" /\ chars[i + 1] = "/"
    THEN OpenComments(chars, i + 2, line, SubSeq(stack, 1, Len(stack) - 1))
    ELSE IF i < Len(chars) /\ chars[i] = "/" /\ chars[i + 1] = "*"
    THEN OpenComments(chars, i + 2, line, Append(stack, line))
    ELSE OpenComments(chars, i + 1,
                      IF chars[i] = "\n" THEN line + 1 ELSE line, stack)

\* C15: when the input ends inside a block comment, the scanner reports
\* exactly one "Don't forget to close a multiline comment" error, at the
\* line of the outermost unmatched opener.  (Stated for the texts that open
\* the comment with their first two characters.)
OpenCommentReportedAtOutermostOpener ==
    LET source == scanner.source
        open == OpenComments(source, 3, 1, <<1>>)
    IN (/\ scan_pc = "done"
        /\ Len(source) >= 2 /\ source[1] = "/" /\ source[2] = "*"
        /\ open /= <<>>)
          => /\ Len(scanner.reported) = 1
             /\ scanner.reported[1].line = open[1]
             /\ scanner.reported[1].message =
                  "Don't forget to close a multiline comment with closing sign: '*/'."

\* C16: the lexeme of every token is the source text between the position
\* where the scanning of the token started and the one where it ended, and
\* the literal of a String token is that text without its two quotes,
\* two-byte characters in the source or not.
LexemeIsTheScannedText ==
    scan_pc \in {"scanning", "done", "panicked"} =>
        \A i \in DOMAIN scanner.tokens :
            LET t == scanner.tokens[i]
                from == scanner.spans[i].start
                to == scanner.spans[i].current
            IN /\ t.lexeme = Concat(SubSeq(scanner.source, from + 1, to))
               /\ t.token_type = "String" =>
                     t.literal = String(Concat(SubSeq(scanner.source,
                                                      from + 2, to - 1)))

\* C17: peek, peek_next and match_char read no character position at or
\* past the end of the source (there peek and peek_next answer the sentinel
\* and match_char answers false), and advance is applied only while an
\* unread character remains.
LookaheadStaysInTheSource ==
    /\ scan_pc = "panicked" =>
          scanner.panic_in \notin {"peek", "peek_next", "match_char", "advance"}
    /\ (scan_pc = "scanning" /\ ~is_at_end(scanner)) =>
          scanner.current < Len(scanner.source)

(***************************************************************************)
(* Properties of the interpreter (under Spec).                             *)
(***************************************************************************)
\* C2: when a user function is called, the parent of the call's environment
\* is the environment that was current when the function's declaration was
\* executed, so that print x in show() of DefinitionSite prints "local".
CallEnvironmentEnclosesClosure ==
    /\ \A c \in Events("call"), d \in Events("fun_decl") :
          history[c].rc = history[d].rc
              => history[c].enclosing = history[d].env
    /\ (program = DefinitionSite /\ status = "returned")
          => interp.out = <<"local">>

\* C3: a function returned out of the scope that declared it shares that
\* scope's bindings across its calls: the three calls f() of MakeInc yield
\* 1, 2 and 3.
MakeIncCounts ==
    (program = MakeInc /\ status = "returned")
        => /\ interpret_result = OkUnit
           /\ interp.out = <<"1", "2", "3">>

\* C4: a runtime error (any error but the return unwind) in the body of a
\* user function makes the call fail with that same error, so that the
\* caller's code after the call is not executed.
ErrorInBodyFailsTheCall ==
    /\ \A x \in Events("call_exit") :
          history[x].body.k \in {"RuntimeError", "SystemError"}
              => /\ history[x].r = history[x].body
                 /\ history[x + 1].ev = "eval_exit"
                 /\ history[x + 1].r = history[x].body
    /\ (program = ErrorInBody /\ status = "returned")
          => /\ interpret_result.k = "RuntimeError"
             /\ interp.out = <<"in">>

\* C5: interpret never returns the ReturnValue signal, whatever the
\* statements, a return outside every function included.
InterpretNeverReturnsReturnValue ==
    status = "returned" => interpret_result.k /= "ReturnValue"

\* C6: in a call of a user function, no statement of the call is executed
\* after a return statement of it, and the call evaluates to the returned
\* value (Nil for `return;`); a body that ends without a return makes the
\* call evaluate to Nil.
ReturnEndsTheCall ==
    /\ \A i \in Events("return") :
          history[i].frame /= 0
              => /\ \A k \in Events("execute") :
                       history[k].frame = history[i].frame => k < i
                 /\ \E x \in Events("call_exit") :
                       /\ x > i
                       /\ history[x].frame = history[i].frame
                       /\ history[x + 1].ev = "eval_exit"
                       /\ history[x + 1].expr.e = "Call"
                       /\ history[x + 1].r = Ok(history[i].value)
    /\ \A x \in Events("call_exit") :
          history[x].body.k = "Ok"
              => /\ history[x + 1].ev = "eval_exit"
                 /\ history[x + 1].expr.e = "Call"
                 /\ history[x + 1].r = Ok(Nil)

\* A run where calls returned from inside a loop, by `return;` and by the
\* end of the body.
ReturnEndsTheCallWitness ==
    /\ status = "returned"
    /\ \/ program = ReturnInLoop /\ interp.out = <<"1", "2">>
       \/ program = BareReturn /\ interp.out = <<"nil", "body", "nil">>

\* C7: execute_block leaves the current environment as it found it, whether
\* the statements complete, fail or unwind with a return; and when interpret
\* returns, the current environment is the global one.
ExecuteBlockRestoresEnvironment ==
    /\ \A i \in Events("execute_block") :
          history[i].after = history[i].previous
    /\ status = "returned" => interp.environment = interp.globals

\* interpret has returned after blocks that completed, failed and unwound.
ExecuteBlockRestoresEnvironmentWitness ==
    /\ status = "returned"
    /\ {history[i].k : i \in Events("execute_block")}
          \in {{"Ok", "RuntimeError"}, {"Ok", "ReturnValue"},
               {"RuntimeError"}, {"ReturnValue"}}
    /\ \E i \in Events("execute_block") :
          history[i].k /= "Ok" /\ history[i].previous /= interp.globals

\* Truthiness: Nil and Bool(false) are false, everything else is true.
Truthy(v) == v /= Nil /\ v /= Bool(FALSE)

\* C8: in `A or B` with A truthy and in `A and B` with A falsy the result is
\* A's value and B is not evaluated; otherwise B is evaluated exactly once,
\* after A, and the result is B's.
LogicalShortCircuits ==
    \A i \in Events("eval_enter") :
        history[i].expr.e = "Logical" =>
            \E a \in Kids(i) :
                LET expr == history[i].expr
                    A == history[ExitOf(a)].r
                    keeps == IF expr.operator.token_type = "Or"
                             THEN Truthy(A.v) ELSE ~Truthy(A.v)
                IN /\ \A k \in Kids(i) : a <= k
                   /\ history[a].expr = expr.left
                   /\ IsOk(A) =>
                        IF keeps
                        THEN /\ Kids(i) = {a}
                             /\ history[ExitOf(i)].r = A
                        ELSE \E b \in Kids(i) :
                                /\ Kids(i) = {a, b}
                                /\ b > ExitOf(a)
                                /\ history[b].expr = expr.right
                                /\ history[ExitOf(i)].r
                                       = history[ExitOf(b)].r

\* The run of ShortCircuit is over: two right operands were skipped, four
\* were evaluated.
LogicalShortCircuitsWitness ==
    /\ program = ShortCircuit
    /\ status = "returned"
    /\ interp.out = <<"true", "false", "true", "false", "0", "nil", "6">>

ArithmeticOperators ==
    {"Plus", "Minus", "Star", "Slash", "Greater", "GreaterEqual", "Less",
     "LessEqual"}

\* The operator table: the arithmetic and relational operators accepted for
\* a pair of operand values.
Accepted(left, right) ==
    CASE left.t = "Number" /\ right.t = "Number" -> ArithmeticOperators
      [] {left.t, right.t} \subseteq {"Number", "String"} -> {"Plus"}
      [] OTHER -> {}

\* C9: an arithmetic or relational operator applied to a pair of values
\* (function values included) that the table does not accept fails with a
\* RuntimeError carrying the operator token: no value, no other abort.
UnacceptedOperandsAreRuntimeErrors ==
    \A b \in BinaryEvaluations(ArithmeticOperators) :
        LET operator == history[b.i].expr.operator
        IN operator.token_type \notin Accepted(b.left, b.right)
              => /\ b.r.k = "RuntimeError"
                 /\ b.r.token = operator

\* Equality of two values: the same variant with equal payload, numbers as
\* IEEE 754 compares them.
Equal(a, b) ==
    /\ a.t = b.t
    /\ IF a.t = "Number" THEN F64Eq(a.n, b.n) ELSE a = b

\* C10: for every pair of values, function values included, a == b is true
\* exactly when they are equal, and a != b is its negation.
EqualityIsTotal ==
    \A b \in BinaryEvaluations({"EqualEqual", "BangEqual"}) :
        b.r = Ok(Bool(IF history[b.i].expr.operator.token_type = "EqualEqual"
                      THEN Equal(b.left, b.right)
                      ELSE ~Equal(b.left, b.right)))


\* The scopes of the chain that starts at the environment h, innermost first.
RECURSIVE Chain(_, _)
Chain(envs, h) == IF h = 0 THEN <<>> ELSE <<h>> \o Chain(envs, envs[h].enclosing)

\* The innermost scope of the chain from h that binds the name x, or 0.
Innermost(envs, h, x) ==
    LET chain == Chain(envs, h)
        at == {i \in DOMAIN chain : x \in DOMAIN envs[chain[i]].values}
    IN IF at = {} THEN 0
       ELSE chain[CHOOSE i \in at : \A j \in at : i <= j]

Undefined(x) == "Undefined variable '" \o x \o "'."

\* C18: reading a variable yields the value of the innermost binding of its
\* name on the chain from the current environment; it fails with "Undefined
\* variable" when no scope binds it, and with the runtime error of a
\* variable not explicitly initialized when the innermost binding holds
\* NilImplicit, whatever the outer scopes hold.
ReadYieldsInnermostBinding ==
    \A i \in Events("read") :
        LET read == history[i]
            x == read.name.lexeme
            scope == Innermost(read.envs, read.environment, x)
        IN IF scope = 0
           THEN /\ read.r.k = "RuntimeError"
                /\ read.r.message = Undefined(x)
           ELSE IF read.envs[scope].values[x] = NilImplicit
           THEN /\ read.r.k = "RuntimeError"
                /\ read.r.token = read.name
                /\ read.r.message /= Undefined(x)
           ELSE read.r = Ok(read.envs[scope].values[x])

\* A variable of an outer scope was read from two blocks further in, then
\* one left uninitialized by the inner block while an outer scope holds 1.
ReadYieldsInnermostBindingWitness ==
    /\ program = ImplicitShadow
    /\ status = "returned"
    /\ interp.out = <<"2">>
    /\ \E i \in Events("read") :
          /\ history[i].r.k = "RuntimeError"
          /\ history[i].envs[history[i].environment].values["x"] = NilImplicit
          /\ history[i].envs[history[i].envs[history[i].envs[
                 history[i].environment].enclosing].enclosing].values["x"]
               = Number(F64(1))

\* C19: x = e updates the binding of x in the innermost scope of the chain
\* that binds x and nothing else, creates no binding and evaluates to the
\* assigned value; when no scope binds x it fails with "Undefined variable"
\* and changes no environment.
AssignUpdatesInnermostBinding ==
    \A i \in Events("assign") :
        LET assign == history[i]
            x == assign.name.lexeme
            scope == Innermost(assign.before, assign.environment, x)
        IN IF scope = 0
           THEN /\ assign.r.k = "RuntimeError"
                /\ assign.r.message = Undefined(x)
                /\ assign.after = assign.before
           ELSE /\ assign.r = Ok(assign.value)
                /\ assign.after =
                     [assign.before EXCEPT ![scope].values[x] = assign.value]

\* Assignments reached an enclosing scope and the scope they ran in, and one
\* found no binding.
AssignUpdatesInnermostBindingWitness ==
    /\ program = AssignScopes
    /\ status = "returned"
    /\ interp.out = <<"4", "2">>
    /\ interpret_result.k = "RuntimeError"
    /\ \E i \in Events("assign") :
          Innermost(history[i].before, history[i].environment, "x")
              \notin {0, history[i].environment}

\* C20: a var statement in a block defines or overwrites the variable in
\* the block's own scope only, the bindings of the enclosing scopes staying
\* as they are; after the block a read finds the enclosing binding again:
\* Shadowing prints 2 then 1.
VarDefinesInItsOwnScope ==
    /\ \A i \in Events("var") :
          LET var == history[i]
              x == var.name.lexeme
              own == var.environment
          IN /\ DOMAIN var.after = DOMAIN var.before
             /\ \A h \in DOMAIN var.before :
                   /\ var.after[h].enclosing = var.before[h].enclosing
                   /\ h /= own => var.after[h] = var.before[h]
             /\ DOMAIN var.after[own].values
                   = DOMAIN var.before[own].values \cup {x}
             /\ \A n \in DOMAIN var.after[own].values :
                   var.after[own].values[n] =
                       IF n = x THEN var.value ELSE var.before[own].values[n]
    /\ (program = Shadowing /\ status = "returned")
          => interp.out = <<"2", "1">>

\* Shadowing has run: x was defined in a block while the globals hold x.
VarDefinesInItsOwnScopeWitness ==
    /\ program = Shadowing
    /\ status = "returned"
    /\ \E i \in Events("var") :
          /\ history[i].environment /= interp.globals
          /\ "x" \in DOMAIN history[i].before[interp.globals].values

\* The evaluations of its operands that the evaluation of a call starting
\* at line i starts: those of the body it calls run in another frame.
OperandsOf(i) == {k \in Kids(i) : history[k].frame = history[i].frame}

\* The n-th of them.
OperandAt(i, n) ==
    CHOOSE k \in OperandsOf(i) :
        Cardinality({m \in OperandsOf(i) : m < k}) = n - 1

\* C21: a call evaluates the callee, then the arguments from left to right,
\* and only then looks at the callee: a value that is no function fails
\* with "Can only call functions and classes." at the closing paren, a
\* count of arguments other than the arity fails with "Expected N
\* arguments but got M."; in both cases nothing is executed and no
\* environment is created.
CallChecksCalleeAfterArguments ==
    \A i \in Events("eval_enter") :
        history[i].expr.e = "Call" =>
            LET site == history[i].expr
                operands == <<site.callee>> \o site.arguments
                n == Cardinality(OperandsOf(i))
                last == ExitOf(OperandAt(i, n))
                callee == history[ExitOf(OperandAt(i, 1))].r.v
                params == IF callee.callable = "Clock" THEN 0
                          ELSE Len(callee.params)
                Untouched ==
                    /\ ExitOf(i) = last + 1
                    /\ history[ExitOf(i)].nenvs = history[last].nenvs
            IN /\ n \in 1..Len(operands)
               /\ \A m \in 1..n : history[OperandAt(i, m)].expr = operands[m]
               /\ \A m \in 1..(n - 1) : IsOk(history[ExitOf(OperandAt(i, m))].r)
               /\ IF ~IsOk(history[last].r) \/ n < Len(operands)
                  THEN /\ ~IsOk(history[last].r)
                       /\ history[ExitOf(i)].r = history[last].r
                       /\ Untouched
                  ELSE IF callee.t /= "Function"
                  THEN /\ history[ExitOf(i)].r =
                            RuntimeError(site.paren,
                                "Can only call functions and classes.")
                       /\ Untouched
                  ELSE IF Len(site.arguments) /= params
                  THEN /\ history[ExitOf(i)].r =
                            RuntimeError(site.paren,
                                "Expected " \o ToString(params)
                                \o " arguments but got "
                                \o ToString(Len(site.arguments)) \o ".")
                       /\ Untouched
                  ELSE TRUE

\* CallChecks has run: f was called with two arguments for one parameter,
\* and the number in x was called after both arguments had assigned to x.
CallChecksCalleeAfterArgumentsWitness ==
    /\ program = CallChecks
    /\ status = "returned"
    /\ interp.out = <<>>
    /\ interp.err = << "Expected 1 arguments but got 2.",
                       "Can only call functions and classes." >>
    /\ interp.envs[interp.globals].values["x"] = Number(F64(3))

(***************************************************************************)
(* Properties of the parser (under SpecParse).                             *)
(***************************************************************************)
ParserEvents(ev) == {i \in DOMAIN parser.trace : parser.trace[i].ev = ev}

\* The diagnostics that end the declaration they are reported in.
FatalErrors ==
    {j \in ParserEvents("error") :
        /\ parser.trace[j].message /= "Invalid assignment target."
        /\ parser.trace[j].message /= "Can't have more than 255 arguments."
        /\ parser.trace[j].message /= "Can't have more than 255 parameters."}

\* The first synchronization point after an error at the position at: the
\* position after the next semicolon, or of the next keyword that starts a
\* declaration or a statement, or of EOF.
SyncPoint(tokens, at) ==
    LET Stop(j) == \/ tokens[j + 1].token_type = "EOF"
                   \/ tokens[j].token_type = "Semicolon"
                   \/ tokens[j + 1].token_type \in
                        {"Class", "Fun", "Var", "For", "If", "While",
                         "Print", "Return"}
    IN IF tokens[at + 1].token_type = "EOF" THEN at
       ELSE CHOOSE j \in (at + 1)..(Len(tokens) - 1) :
               Stop(j) /\ \A k \in (at + 1)..(j - 1) : ~Stop(k)

\* The statement occurs in the statements, at the top or nested in them.
RECURSIVE Occurs(_, _)
Occurs(stmt, stmts) ==
    \E i \in DOMAIN stmts :
        \/ stmts[i] = stmt
        \/ stmts[i].s = "Block" /\ Occurs(stmt, stmts[i].statements)
        \/ stmts[i].s = "Function" /\ Occurs(stmt, stmts[i].body)
        \/ stmts[i].s = "While" /\ Occurs(stmt, <<stmts[i].body>>)
        \/ stmts[i].s = "If" /\ Occurs(stmt, <<stmts[i].then_branch>>)
        \/ /\ stmts[i].s = "If"
           /\ stmts[i].else_branch /= None
           /\ Occurs(stmt, <<stmts[i].else_branch>>)

\* The diagnostics reported inside the top-level declaration whose line of
\* the history is i.
ErrorsWithin(i) ==
    {j \in FatalErrors :
        /\ j < i
        /\ \A k \in ParserEvents("declaration") :
              (parser.trace[k].depth = 0 /\ k < i) => k < j}

\* C12: after a parse error in a declaration, at any depth of blocks, one
\* diagnostic is reported and the parse resumes at the first
\* synchronization point after the error, so that a well-formed
\* declaration that starts there is parsed and is in the result.
ParseResumesAtSynchronizationPoint ==
    /\ \A i \in ParserEvents("declaration") :
          (parser.trace[i].depth = 0 /\ ~IsOk(parser.trace[i].r)
             /\ ErrorsWithin(i) /= {})
            => \A j \in ErrorsWithin(i) :
                  parser.trace[i].end
                      = SyncPoint(parser.tokens, parser.trace[j].at)
    /\ parse_pc = "done" =>
          \A j \in FatalErrors :
              \A there \in
                  {declaration([Parser_new(parser.tokens) EXCEPT
                                   !.current = SyncPoint(parser.tokens,
                                                   parser.trace[j].at)])} :
                  IsOk(there.r) => Occurs(there.r.v, parse_statements)
    /\ (parse_pc = "done" /\ parser.tokens = ErrorInABlock)
          => Len(parser.reported) = 1

\* C13: for (init; cond; incr) body is the block of init and the while loop
\* on cond whose body is the block of body and the expression statement of
\* incr; without init there is no outer block, without cond the condition
\* is the literal true, without incr the loop's body is body itself.
ForIsAWhileLoop ==
    /\ \A i \in ParserEvents("for") :
          LET for == parser.trace[i]
              cond == IF for.condition = None THEN True ELSE for.condition
              inner == IF for.increment = None THEN for.body
                       ELSE Block(<<for.body, Expression(for.increment)>>)
          IN for.r = Ok(IF for.initializer = None THEN While(cond, inner)
                        ELSE Block(<<for.initializer, While(cond, inner)>>))
    /\ (parse_pc = "done" /\ parser.tokens = ForAllClauses)
          => parse_statements =
               << Block(<< VarDecl("i", Num(0)),
                           While(Bin(Var("i"), "Less", Num(3)),
                                 Block(<< Prints(Var("i")),
                                          Expression(Assign("i",
                                              Bin(Var("i"), "Plus",
                                                  Num(1)))) >>)) >>) >>
    /\ (parse_pc = "done" /\ parser.tokens = ForNoClause)
          => parse_statements = << While(True, Prints(Num(1))) >>

\* Loops were parsed with every clause, and with each clause left out.
ForIsAWhileLoopWitness ==
    /\ parse_pc = "done"
    /\ parser.tokens \in {ForAllClauses, ForNoInitializer, ForNoIncrement,
                          ForNoCondition}
    /\ parser.reported = <<>>
    /\ \E i \in ParserEvents("for") :
          \/ /\ parser.tokens = ForAllClauses
             /\ None \notin {parser.trace[i].initializer,
                             parser.trace[i].condition,
                             parser.trace[i].increment}
          \/ /\ parser.tokens = ForNoInitializer
             /\ parser.trace[i].initializer = None
          \/ /\ parser.tokens = ForNoIncrement
             /\ parser.trace[i].increment = None
          \/ /\ parser.tokens = ForNoCondition
             /\ parser.trace[i].condition = None

\* C14: a primary that starts with ( parses the inner expression, then
\* requires the ) and consumes it, and is the Grouping of the inner
\* expression: (1 + 2) * 3 is the product of a grouping and 3; a missing )
\* is a parse error.
GroupingConsumesTheParenthesis ==
    /\ \A i \in ParserEvents("grouping") :
          LET group == parser.trace[i]
          IN IF parser.tokens[group.after_inner + 1].token_type
                    = "RightParen"
             THEN /\ group.r = Ok(GroupingExpr(group.inner))
                  /\ group.after = group.after_inner + 1
             ELSE group.r.k = "ParseError"
    /\ (parse_pc = "done" /\ parser.tokens = GroupedSum)
          => parse_statements =
               << Expression(Bin(GroupingExpr(Bin(Num(1), "Plus", Num(2))),
                                 "Star", Num(3))) >>

(***************************************************************************)
(* Properties of Lox::run (under SpecRun).                                 *)
(***************************************************************************)
\* C11: when the scanner or the parser has reported an error, the run
\* records had_error and executes no statement.
ErrorsStopTheRun ==
    (scan_pc /= "new"
       /\ (scanner.reported /= <<>> \/ parser.reported /= <<>>))
        => /\ Events("execute") = {}
           /\ run_pc = "done" => lox.had_error

\* C22: when a top-level statement fails with a runtime error, interpret
\* returns the error at once: no later top-level statement is executed,
\* what the earlier statements did to the global environment remains, and
\* the driver sets had_runtime_error.
RuntimeErrorEndsInterpret ==
    (status = "returned" /\ interpret_result.k = "RuntimeError") =>
        LET failed == CHOOSE i \in Events("interpret") : history[i].pc = pc
            globals == interp.envs[interp.globals]
        IN /\ Cardinality(Events("interpret")) = pc
           /\ \A i \in Events("interpret") : history[i].pc <= pc
           /\ DOMAIN history[failed].globals.values
                 \subseteq DOMAIN globals.values
           /\ (\A k \in (failed + 1)..Len(history) :
                  history[k].ev \notin {"assign", "var", "fun_decl"})
                 => globals = history[failed].globals
           /\ run_pc = "done" => lox.had_runtime_error
           /\ scanner.source = RuntimeErrorSource
                 => /\ interp.out = <<"2">>
                    /\ globals.values["x"] = Number(F64(2))

\* The fourth of six statements has failed: x is 2 as the second left it,
\* and the flag is set.
RuntimeErrorEndsInterpretWitness ==
    /\ scanner.source = RuntimeErrorSource
    /\ run_pc = "done"
    /\ interpret_result.k = "RuntimeError"
    /\ pc = 4
    /\ Len(program) = 6
    /\ lox.had_runtime_error

(***************************************************************************)
(* Properties of the parser and the interpreter together                   *)
(***************************************************************************)
RECURSIVE Subexpressions(_)
RECURSIVE ExpressionsOf(_)

\* An expression and the expressions in it.
Subexpressions(expr) ==
    {expr} \cup
    CASE expr.e \in {"Binary", "Logical"} ->
             Subexpressions(expr.left) \cup Subexpressions(expr.right)
      [] expr.e = "Unary" -> Subexpressions(expr.right)
      [] expr.e = "Grouping" -> Subexpressions(expr.expression)
      [] expr.e = "Assign" -> Subexpressions(expr.value)
      [] expr.e = "Call" ->
             Subexpressions(expr.callee) \cup
             UNION {Subexpressions(expr.arguments[k])
                       : k \in DOMAIN expr.arguments}
      [] OTHER -> {}

\* The expressions in a statement.
ExpressionsOf(stmt) ==
    CASE stmt = None -> {}
      [] stmt.s \in {"Block", "Function"} ->
             LET statements == IF stmt.s = "Block" THEN stmt.statements
                               ELSE stmt.body
             IN UNION {ExpressionsOf(statements[k]) : k \in DOMAIN statements}
      [] stmt.s \in {"Expression", "Print"} -> Subexpressions(stmt.expression)
      [] stmt.s = "If" ->
             Subexpressions(stmt.condition)
                \cup ExpressionsOf(stmt.then_branch)
                \cup ExpressionsOf(stmt.else_branch)
      [] stmt.s = "Return" ->
             IF stmt.value = None THEN {} ELSE Subexpressions(stmt.value)
      [] stmt.s = "Var" ->
             IF stmt.initializer = None THEN {}
             ELSE Subexpressions(stmt.initializer)
      [] stmt.s = "While" ->
             Subexpressions(stmt.condition) \cup ExpressionsOf(stmt.body)

\* How tightly the operator at the root of an expression binds.
Binding(expr) ==
    CASE expr.e = "Assign" -> 0
      [] expr.e \in {"Binary", "Logical"} ->
            (CASE expr.operator.token_type = "Or" -> 1
               [] expr.operator.token_type = "And" -> 2
               [] expr.operator.token_type \in {"BangEqual", "EqualEqual"}
                    -> 3
               [] expr.operator.token_type
                     \in {"Greater", "GreaterEqual", "Less", "LessEqual"}
                    -> 4
               [] expr.operator.token_type \in {"Minus", "Plus"} -> 5
               [] expr.operator.token_type \in {"Slash", "Star"} -> 6)
      [] expr.e = "Unary" -> 7
      [] OTHER -> 8

\* C23: the binary operators are left associative and bind in the order
\* * /, then + -, then comparisons, then == !=, then and, then or; the
\* statement print 1 + 2 * 3; is Binary(1, +, Binary(2, *, 3)) and prints
\* 7.
OperatorsBindByPrecedence ==
    parse_pc = "done" =>
       /\ \A k \in DOMAIN parse_statements :
             \A expr \in ExpressionsOf(parse_statements[k]) :
                /\ expr.e \in {"Binary", "Logical"} =>
                      /\ Binding(expr.left) >= Binding(expr)
                      /\ Binding(expr.right) > Binding(expr)
                      /\ expr.e = "Logical"
                            <=> expr.operator.token_type \in {"Or", "And"}
                /\ expr.e = "Unary" => Binding(expr.right) >= 7
       /\ scanner.source = PrecedenceSource =>
             /\ parse_statements =
                   <<PrintStmt(
                        BinaryExpr(
                           LiteralExpr(Number(F64(1))), T("Plus"),
                           BinaryExpr(LiteralExpr(Number(F64(2))), T("Star"),
                                      LiteralExpr(Number(F64(3))))))>>
             /\ run_pc = "done" => interp.out = <<"7">>
       /\ (scanner.source = LeftAssociativeSource /\ run_pc = "done") =>
             interp.out = <<"4", "1">>
       /\ (scanner.source = EveryLevelSource /\ run_pc = "done") =>
             interp.out = <<"true">>

\* print 1+2*3; has been parsed and has printed 7.
OperatorsBindByPrecedenceWitness ==
    /\ run_pc = "done"
    /\ scanner.source = PrecedenceSource
    /\ Len(parse_statements) = 1
    /\ parse_statements[1].expression.right.operator.token_type = "Star"
    /\ interp.out = <<"7">>

\* An expression with an operator of every level has been parsed.
EveryLevelParsed ==
    /\ run_pc = "done"
    /\ scanner.source = EveryLevelSource
    /\ {Binding(expr) : expr \in ExpressionsOf(parse_statements[1])}
          = 1..8 \ {7}
    /\ interp.out = <<"true">>

(***************************************************************************)
(* Truthiness                                                              *)
(***************************************************************************)
\* The line after the evaluation that starts at line i, 0 if there is none.
After(i) == IF ExitOf(i) < Len(history) THEN ExitOf(i) + 1 ELSE 0

\* Line k is the start of the execution of stmt one level below line j.
Runs(j, k, stmt) ==
    /\ k /= 0
    /\ history[k].ev = "execute"
    /\ history[k].level = history[j].level + 1
    /\ history[k].frame = history[j].frame
    /\ history[k].stmt = stmt

\* Line k starts no statement one level below line j.
RunsNothing(j, k) ==
    k /= 0 => ~(history[k].ev = "execute"
                /\ history[k].level = history[j].level + 1)

\* The evaluations of the condition of the while statement that starts at
\* line j: up to the next statement that is not inside it.
ConditionsOf(j) ==
    {k \in Events("eval_enter") :
        /\ k > j
        /\ history[k].expr = history[j].stmt.condition
        /\ history[k].depth = history[j + 1].depth
        /\ history[k].frame = history[j].frame
        /\ \A m \in (j + 1)..k :
              history[m].ev = "execute" => history[m].level > history[j].level}

\* C24: nil and false are falsy and every other value (true, every number,
\* 0 too, every string, the empty one too, every function) is truthy; if,
\* while, !, and, or all decide by this rule.
TruthinessDecides ==
    /\ \A j \in Events("execute") :
          /\ history[j].stmt.s = "If" =>
                LET stmt == history[j].stmt
                    literal == history[ExitOf(j + 1)].r
                IN /\ history[j + 1].ev = "eval_enter"
                   /\ history[j + 1].expr = stmt.condition
                   /\ IsOk(literal) =>
                        IF Truthy(literal.v)
                        THEN Runs(j, After(j + 1), stmt.then_branch)
                        ELSE IF stmt.else_branch /= None
                        THEN Runs(j, After(j + 1), stmt.else_branch)
                        ELSE RunsNothing(j, After(j + 1))
          /\ history[j].stmt.s = "While" =>
                /\ j + 1 \in ConditionsOf(j)
                /\ \A k \in ConditionsOf(j) :
                      LET literal == history[ExitOf(k)].r
                      IN IsOk(literal) =>
                            IF Truthy(literal.v)
                            THEN Runs(j, After(k), history[j].stmt.body)
                            ELSE /\ RunsNothing(j, After(k))
                                 /\ \A m \in ConditionsOf(j) : m <= k
    /\ \A i \in Events("eval_enter") :
          /\ (/\ history[i].expr.e = "Unary"
              /\ history[i].expr.operator.token_type = "Bang") =>
                \E a \in Kids(i) :
                   /\ Kids(i) = {a}
                   /\ IsOk(history[ExitOf(a)].r) =>
                         history[ExitOf(i)].r
                            = Ok(Bool(~Truthy(history[ExitOf(a)].r.v)))
          /\ history[i].expr.e = "Logical" =>
                \E a \in Kids(i) :
                   /\ \A k \in Kids(i) : a <= k
                   /\ IsOk(history[ExitOf(a)].r) =>
                         (Kids(i) = {a} <=>
                             (history[i].expr.operator.token_type = "Or"
                                 <=> Truthy(history[ExitOf(a)].r.v)))
    /\ (program = Truthiness /\ status = "returned") =>
          interp.out = <<"zero", "empty", "fun", "not nil", "false", "true",
                         "false", "false", "1", "x", "false", "loop", "once">>

\* Every construct has decided on 0, on "", on a function, on nil and on
\* false, and the second loop has ended on a return at top level.
TruthinessDecidesWitness ==
    /\ program = Truthiness
    /\ status = "returned"
    /\ pc = Len(Truthiness)
    /\ interpret_result.k = "ReturnValue"
    /\ Len(interp.out) = 13

(***************************************************************************)
(* More properties of the scanner (under SpecScan).                        *)
(***************************************************************************)
\* C25: scan_tokens consumes the whole source: its loop stops only when the
\* cursor has reached the length of the source, so the final character is
\* scanned too, and a source whose last character is the ; of a statement
\* gets its Semicolon token before EOF.
ScanConsumesTheWholeSource ==
    scan_pc = "done" =>
       /\ scanner.current >= str_len(scanner.source)
       /\ scanner.source \in {<<";">>, <<"1", ";">>, <<"a", ";">>} =>
             /\ Len(scanner.tokens) >= 2
             /\ scanner.tokens[Len(scanner.tokens) - 1].token_type
                   = "Semicolon"

\* The position after the */ that closes a block comment which the text is
\* inside of, depth openers deep, at character i; 0 if the text ends first.
RECURSIVE CommentEnd(_, _, _)
CommentEnd(chars, i, depth) ==
    IF depth = 0 THEN i
    ELSE IF i > Len(chars) THEN 0
    ELSE IF i < Len(chars) /\ chars[i] = "*" /\ chars[i + 1] = "/"
    THEN CommentEnd(chars, i + 2, depth - 1)
    ELSE IF i < Len(chars) /\ chars[i] = "/" /\ chars[i + 1] = "*"
    THEN CommentEnd(chars, i + 2, depth + 1)
    ELSE CommentEnd(chars, i + 1, depth)

\* C26: a block comment opened by /* ends at the */ that brings the nesting
\* depth back to zero: it is not reported as left open, no token is emitted
\* for the text inside it, and scanning resumes with the character right
\* after that */ (so that a comment with nothing but blanks after it leaves
\* the EOF token alone).  (Stated for the texts that open the comment with
\* their first two characters.)
BlockCommentEndsAtItsCloser ==
    LET source == scanner.source
        end == CommentEnd(source, 3, 1)
    IN (/\ scan_pc \in {"scanning", "done", "panicked"}
        /\ scanner.current > 0
        /\ Len(source) >= 2 /\ source[1] = "/" /\ source[2] = "*"
        /\ end /= 0)
          => /\ scanner.reported = <<>>
             /\ \A i \in DOMAIN scanner.spans :
                   scanner.spans[i].start >= ByteOffset(source, end - 1)
             /\ (\A k \in end..Len(source) : source[k] = "\n") =>
                   /\ scan_pc /= "panicked"
                   /\ scan_pc = "done" =>
                         /\ Len(scanner.tokens) = 1
                         /\ scanner.tokens[1].token_type = "EOF"

(***************************************************************************)
(* NilImplicit                                                             *)
(***************************************************************************)
\* C27: no evaluation of an expression yields NilImplicit: the value is
\* only in the binding that a var statement without initializer makes; it
\* is never printed, passed as an argument, returned, nor stored by an
\* assignment or by the initializer of a declaration.
NilImplicitStaysInItsBinding ==
    /\ \A i \in Events("eval_exit") :
          IsOk(history[i].r) => history[i].r.v /= NilImplicit
    /\ \A i \in Events("return") : history[i].value /= NilImplicit
    /\ \A i \in Events("assign") :
          IsOk(history[i].r) => history[i].value /= NilImplicit
    /\ \A i \in Events("var") :
          history[i].value = NilImplicit <=> history[i].initializer = None
    /\ \A k \in DOMAIN interp.out : interp.out[k] /= Display(NilImplicit)
    /\ (interpret_result /= None /\ interpret_result.k = "ReturnValue") =>
          interpret_result.value /= NilImplicit
    /\ \A h \in DOMAIN interp.envs :
          \A name \in DOMAIN interp.envs[h].values :
             interp.envs[h].values[name] = NilImplicit =>
                \E i \in Events("var") :
                   /\ history[i].name.lexeme = name
                   /\ history[i].environment = h
                   /\ history[i].initializer = None

\* x is declared without a value and read in a function, as an initializer
\* and as an argument: the binding still holds NilImplicit and y holds nil.
NilImplicitStaysInItsBindingWitness ==
    /\ program = Uninitialized
    /\ status = "returned"
    /\ pc = Len(Uninitialized)
    /\ interpret_result.k = "RuntimeError"
    /\ interp.out = <<"nil", "nil">>
    /\ interp.envs[interp.globals].values["x"] = NilImplicit
    /\ interp.envs[interp.globals].values["y"] = Nil

\* The number of newlines in the first n characters.
Newlines(chars, n) ==
    Cardinality({k \in 1..n : k <= Len(chars) /\ chars[k] = "\n"})

\* C28: at every point of scanning, line is 1 plus the number of newlines
\* consumed so far (between tokens, at the end of a line comment, inside a
\* string, inside a block comment, nested or not, each counted once), and
\* every token that holds no newline is stamped with the line of its first
\* character.
LineCountsNewlines ==
    scan_pc \in {"scanning", "done"} =>
       /\ scanner.line = 1 + Newlines(scanner.source, scanner.current)
       /\ \A i \in DOMAIN scanner.tokens :
             LET from == scanner.spans[i].start
                 to == scanner.spans[i].current
             IN Newlines(scanner.source, to) = Newlines(scanner.source, from)
                   => scanner.tokens[i].line
                         = 1 + Newlines(scanner.source, from)

\* The word after the four newlines of FiveLines is on line 5.
LineCountsNewlinesWitness ==
    /\ scan_pc = "done"
    /\ scanner.source = FiveLines
    /\ Len(scanner.tokens) = 3
    /\ scanner.tokens[1].token_type = "String"
    /\ scanner.tokens[2].token_type = "Identifier"
    /\ scanner.tokens[2].line = 5
    /\ scanner.line = 5

(***************************************************************************)
(* More properties of the parser (under SpecParse).                        *)
(***************************************************************************)
\* The index of the EOF token, counted from 0 as the cursor is.
EOFIndex == Len(parser.tokens) - 1

\* The iterations of the loop of Parser::parse so far.
Iterations ==
    {i \in ParserEvents("declaration") : parser.trace[i].depth = 0}

\* C29: Parser::parse terminates for every token sequence that ends with
\* EOF: each iteration of its loop moves the cursor forward by at least one
\* token (so there are no more iterations than tokens before EOF), the
\* cursor stays between 0 and the index of EOF, and previous is never called
\* with the cursor at 0.
ParseMovesForward ==
    parse_pc \in {"parsing", "done"} =>
       /\ parser.current \in 0..EOFIndex
       /\ \A i \in Iterations :
             /\ parser.trace[i].start < parser.trace[i].end
             /\ parser.trace[i].start \in 0..EOFIndex
             /\ parser.trace[i].end \in 0..EOFIndex
       /\ \A i \in ParserEvents("error") : parser.trace[i].at \in 0..EOFIndex
       /\ Cardinality(Iterations) <= parser.current
       /\ ParserEvents("previous") = {}
       /\ parse_pc = "done" => parser.current = EOFIndex

\* ) ; print has been parsed: the first iteration failed at the very first
\* token and synchronized after the ; and the second failed at EOF.
ParseMovesForwardWitness ==
    /\ parse_pc = "done"
    /\ parser.tokens = <<T("RightParen"), T("Semicolon"), T("Print"), T("EOF")>>
    /\ parse_statements = <<>>
    /\ {<<parser.trace[i].start, parser.trace[i].end>> : i \in Iterations}
          = {<<0, 2>>, <<2, 3>>}
    /\ \E i \in ParserEvents("error") : parser.trace[i].at = 0
    /\ \E i \in ParserEvents("error") : parser.trace[i].at = EOFIndex

(***************************************************************************)
(* The chains of environments (under Spec).                                *)
(***************************************************************************)
\* The environments as the history has seen them and as they are now.
Snapshots ==
    {history[i].before : i \in Events("var") \cup Events("assign")}
        \cup {history[i].after : i \in Events("var") \cup Events("assign")}
        \cup {history[i].envs : i \in Events("read")}
        \cup {interp.envs}

\* In envs every environment but the global one has a parent created before
\* it, and its chain, which holds no environment twice, ends at the global
\* one.
WellFounded(envs) ==
    \A h \in DOMAIN envs :
       /\ IF h = interp.globals THEN envs[h].enclosing = 0
          ELSE envs[h].enclosing \in 1..(h - 1)
       /\ LET chain == Chain(envs, h)
          IN /\ chain[Len(chain)] = interp.globals
             /\ \A m, n \in DOMAIN chain : chain[m] = chain[n] => m = n

\* C30: every environment created, for a block or for a call, has a finite
\* acyclic chain of parents that ends at the global environment, and the
\* parent of an environment never changes once it is created; so the walks
\* of get and assign end, and meet no environment twice.
EnvironmentChainsEndAtGlobals ==
    /\ \A envs \in Snapshots : WellFounded(envs)
    /\ \A A, B \in Snapshots :
          \A h \in DOMAIN A \cap DOMAIN B :
             A[h].enclosing = B[h].enclosing
    /\ \A i \in Events("call") : history[i].enclosing \in DOMAIN interp.envs
    /\ \A i \in Events("read") \cup Events("assign") :
          history[i].r.k \in {"Ok", "RuntimeError"}

\* A block in a block and a call have made their environments, and a name
\* has been looked up through three of them.
EnvironmentChainsEndAtGlobalsWitness ==
    /\ status = "returned"
    /\ Events("call") /= {}
    /\ \E h \in DOMAIN interp.envs :
          interp.envs[h].enclosing \notin {0, interp.globals}
    /\ \E i \in Events("read") \cup Events("assign") :
          Len(Chain(IF history[i].ev = "read" THEN history[i].envs
                    ELSE history[i].before,
                    history[i].environment)) >= 3

=============================================================================
